---- MODULE Spec2Model ----
(***************************************************************************)
(* splitfile: incremental, hash-verified file backup.                      *)
(*                                                                         *)
(* The module models the copy-and-hash engine (copy.rs, util.rs), the      *)
(* segment algebra and the four workflows of main.rs against one persisted *)
(* index (index.rs).  Nine specifications are defined:                      *)
(*   Spec         create and write-backup, one action per invocation of    *)
(*                the binary, and the source file changing in between;     *)
(*   SpecCopy     copy_and_hash_with applied to bounded sources and sinks; *)
(*   SpecCover    determine_next_backup applied to bounded fragment lists; *)
(*   SpecRestore  restore-from-fragment and validate-hash, one invocation  *)
(*                on each index of a bounded family;                       *)
(*   SpecStream   reads and seeks on the bounded stream adapter;           *)
(*   SpecLookup   the lookup of a fragment by alias;                       *)
(*   SpecSession  any sequence of invocations of the four workflows on one *)
(*                index;                                                   *)
(*   SpecResume   repeated write-backup on an unmodified source, under     *)
(*                weak fairness;                                           *)
(*   SpecSteps    copy_and_hash_with one read or write call at a time,     *)
(*                under weak fairness.                                     *)
(***************************************************************************)
EXTENDS Integers, Sequences, FiniteSets, TLC

VARIABLES
    disk_index,   \* the index file: [exists, fragments]
    files,        \* the data files, by canonical path: [exists, data]
    next_uuid,    \* how many identifiers uuidgen has handed out
    last,         \* the outcome of the latest invocation of the binary
    observed,     \* every (outcome class, exit code) pair seen so far
    src_changes,  \* how often the source file has been replaced
    cp,           \* SpecCopy, SpecSteps: the engine's input and result
    cov,          \* SpecCover: the covering list and the result
    ts,           \* SpecStream: the bounded stream adapter and what it returned
    lk            \* SpecLookup: the index, the alias and the result

vars == <<disk_index, files, next_uuid, last, observed, src_changes, cp, cov,
          ts, lk>>

----------------------------------------------------------------------------
(* Bounds of the model. *)

\* longest data file, in bytes
MaxLen == 3
\* capacity of the chunk buffer (8192 in copy.rs:27), scaled down
ChunkCap == 2
\* most fragments an index holds before the model stops appending
MaxFrags == 3
\* most slices in a covering list of SpecCover
MaxCover == 3
\* how often the source file is replaced by another one
MaxSrcChanges == 1

Min(a, b) == IF a <= b THEN a ELSE b
Max(a, b) == IF a >= b THEN a ELSE b

\* Option<T> as a sequence of at most one element
None == <<>>
Some(v) == <<v>>

----------------------------------------------------------------------------
(* util.rs: sinks (std::io::Write), readers (std::io::Read), the retry     *)
(* loops.                                                                  *)
(*                                                                         *)
(* A sink is [kind, acc, limited, cap, short, intr]: acc is what it has    *)
(* accepted, a limited sink fails once it holds cap bytes, one write call  *)
(* accepts at most short bytes, and the next intr calls report             *)
(* Interrupted.  kind "null" is NullBuffer, which takes every buffer whole *)
(* and keeps nothing: its acc only records what it was handed.             *)

FileSink(limited, cap, short, intr) ==
    [kind |-> "file", acc |-> <<>>, limited |-> limited, cap |-> cap,
     short |-> short, intr |-> intr]

\* the hash sink of copy_and_hash_with, any std::io::Write: it takes every
\* buffer whole until, if limited, it holds cap bytes and fails.  The
\* hasher copy_and_hash passes, sha3::Sha3_256, is the one that never fails.
HashSink(limited, cap, intr) ==
    [kind |-> "hasher", acc |-> <<>>, limited |-> limited, cap |-> cap,
     short |-> ChunkCap, intr |-> intr]

NullBuffer ==
    [kind |-> "null", acc |-> <<>>, limited |-> FALSE, cap |-> 0,
     short |-> ChunkCap, intr |-> 0]

\* One call of Write::write: "ok" with the count accepted, "intr" or "err".
SinkWrite(sink, buf) ==
    IF sink.kind = "null"
    THEN [kind |-> "ok", n |-> Len(buf), sink |-> [sink EXCEPT !.acc = @ \o buf]]
    ELSE IF sink.intr > 0
    THEN [kind |-> "intr", n |-> 0, sink |-> [sink EXCEPT !.intr = @ - 1]]
    ELSE IF sink.limited /\ Len(sink.acc) >= sink.cap
    THEN [kind |-> "err", n |-> 0, sink |-> sink]
    ELSE LET room == IF sink.limited THEN sink.cap - Len(sink.acc) ELSE Len(buf)
             n == Min(Len(buf), Min(sink.short, room))
         IN [kind |-> "ok", n |-> n,
             sink |-> [sink EXCEPT !.acc = @ \o SubSeq(buf, 1, n)]]

\* mutant: the count of the bytes taken before the error is dropped
WriteFailedLossy(sink, written) ==
    [written |-> 0, ok |-> FALSE, sink |-> sink]

\* try_write_all returns on an error: the count so far, and the error
WriteFailed(sink, written) ==
    [written |-> written, ok |-> FALSE, sink |-> sink]

RECURSIVE TryWriteAllFrom(_, _, _)

\* one round of try_write_all's loop, r being what dst.write returned
WriteRound(r, buf, written) ==
    IF r.kind = "ok" THEN TryWriteAllFrom(r.sink, buf, written + r.n)
    ELSE IF r.kind = "intr" THEN TryWriteAllFrom(r.sink, buf, written)
    ELSE WriteFailed(r.sink, written)

\* try_write_all's loop, entered with `written` bytes of buf already taken
TryWriteAllFrom(sink, buf, written) ==
    IF written >= Len(buf)
    THEN [written |-> written, ok |-> TRUE, sink |-> sink]
    ELSE WriteRound(SinkWrite(sink, SubSeq(buf, written + 1, Len(buf))),
                    buf, written)

TryWriteAll(sink, buf) == TryWriteAllFrom(sink, buf, 0)

(* A file reader is [kind, data, pos, faulty, err_at, intr]: a faulty      *)
(* reader fails once pos has reached err_at, and the next intr calls       *)
(* report Interrupted.                                                     *)
FileReader(data, pos, faulty, err_at, intr) ==
    [kind |-> "file", data |-> data, pos |-> pos, faulty |-> faulty,
     err_at |-> err_at, intr |-> intr]

\* One call of Read::read on a file with a buffer of n bytes.
FileRead(r, n) ==
    IF r.intr > 0
    THEN [kind |-> "intr", bytes |-> <<>>, rd |-> [r EXCEPT !.intr = @ - 1]]
    ELSE IF r.faulty /\ r.pos >= r.err_at
    THEN [kind |-> "err", bytes |-> <<>>, rd |-> r]
    ELSE LET stop == IF r.faulty THEN Min(Len(r.data), r.err_at) ELSE Len(r.data)
             to == Min(r.pos + n, stop)
             bytes == IF to > r.pos THEN SubSeq(r.data, r.pos + 1, to) ELSE <<>>
         IN [kind |-> "ok", bytes |-> bytes,
             rd |-> [r EXCEPT !.pos = @ + Len(bytes)]]

\* Seek::seek(SeekFrom::Start(to)) on a file: any offset is accepted
FileSeek(r, to) == [r EXCEPT !.pos = to]

Zeros(n) == [i \in 1..n |-> 0]

\* the bytes of a data file of length n: offset i holds i + 1
Bytes(n) == [i \in 1..n |-> i]

\* TruncateReadStream::new: limit is counted from the inner position
TruncateReadStream(inner, limit) ==
    [kind |-> "truncate", inner |-> inner, limit |-> limit + inner.pos,
     pos |-> inner.pos, extended |-> FALSE]

\* TruncateReadStream::read after the inner read returned `got`: zeros
\* stand in for bytes the inner reader no longer has
TruncateGot(t, local_limit, got) ==
    IF got.kind # "ok"
    THEN [kind |-> got.kind, bytes |-> <<>>,
          rd |-> [t EXCEPT !.inner = got.rd, !.extended = FALSE]]
    ELSE IF got.bytes = <<>>
    THEN [kind |-> "ok", bytes |-> Zeros(local_limit),
          rd |-> [t EXCEPT !.inner = got.rd, !.extended = TRUE,
                           !.pos = @ + local_limit]]
    ELSE [kind |-> "ok", bytes |-> got.bytes,
          rd |-> [t EXCEPT !.inner = got.rd, !.extended = FALSE,
                           !.pos = @ + Len(got.bytes)]]

\* mutant: the buffer is not cut to what is left up to the limit
TruncateReadUncut(t, n) ==
    IF t.pos = t.limit
    THEN [kind |-> "ok", bytes |-> <<>>, rd |-> t]
    ELSE TruncateGot(t, n,
                     FileRead(IF t.extended THEN FileSeek(t.inner, t.pos)
                              ELSE t.inner, n))

\* TruncateReadStream::read with a buffer of n bytes
TruncateRead(t, n) ==
    IF t.pos = t.limit
    THEN [kind |-> "ok", bytes |-> <<>>, rd |-> t]
    ELSE TruncateGot(t, Min(n, t.limit - t.pos),
                     FileRead(IF t.extended THEN FileSeek(t.inner, t.pos)
                              ELSE t.inner,
                              Min(n, t.limit - t.pos)))

\* SeekFrom::Start(d), Current(d), End(d) as the offset the adapter computes
SeekTarget(t, from, d) ==
    CASE from = "Start" -> d
      [] from = "Current" -> t.pos + d
      [] from = "End" -> t.limit + d

\* mutant: the inner reader is repositioned before the target is checked
TruncateSeekEager(t, from, d) ==
    IF SeekTarget(t, from, d) < 0
    THEN [kind |-> "err", err |-> "NegativeSeek", pos |-> 0,
          rd |-> [t EXCEPT !.inner = FileSeek(@, 0)]]
    ELSE IF SeekTarget(t, from, d) > t.limit
    THEN [kind |-> "err", err |-> "SeekPastEnd", pos |-> 0,
          rd |-> [t EXCEPT !.inner = FileSeek(@, SeekTarget(t, from, d))]]
    ELSE [kind |-> "ok", err |-> "none", pos |-> SeekTarget(t, from, d),
          rd |-> [t EXCEPT !.inner = FileSeek(@, SeekTarget(t, from, d))]]

\* TruncateReadStream::seek: the target checked against 0 and the limit,
\* then the inner reader seeked; the adapter's own pos is left as it was
TruncateSeek(t, from, d) ==
    IF SeekTarget(t, from, d) < 0
    THEN [kind |-> "err", err |-> "NegativeSeek", pos |-> 0, rd |-> t]
    ELSE IF SeekTarget(t, from, d) > t.limit
    THEN [kind |-> "err", err |-> "SeekPastEnd", pos |-> 0, rd |-> t]
    ELSE [kind |-> "ok", err |-> "none", pos |-> SeekTarget(t, from, d),
          rd |-> [t EXCEPT !.inner = FileSeek(@, SeekTarget(t, from, d))]]

\* Read::read, by the reader's type
ReaderRead(r, n) ==
    IF r.kind = "truncate" THEN TruncateRead(r, n) ELSE FileRead(r, n)

RECURSIVE ReadNoIntr(_, _)

\* read_nointr's match on what the read returned
ReadRetry(got, n) ==
    IF got.kind = "intr" THEN ReadNoIntr(got.rd, n) ELSE got

\* read_nointr: retry while the read reports Interrupted
ReadNoIntr(r, n) == ReadRetry(ReaderRead(r, n), n)

----------------------------------------------------------------------------
(* copy.rs: the copy-and-hash engine.                                      *)

\* Result<()>: ok, or the error that ended the copy
Ok == [ok |-> TRUE, err |-> "none"]
Err(e) == [ok |-> FALSE, err |-> e]

\* what the callback hands the hasher: the prefix the destination took
HashedPrefix(chunk, chunk_written) == SubSeq(chunk, 1, chunk_written)

\* the backstop after the loop: written != hashed forces fatal
Backstop(fatal, written, hashed) == fatal \/ written # hashed

\* process_chunks has returned: the counters, the fatal flag set by the
\* callback, the result, and the objects as the copy left them
Stopped(src, dst, hasher, red, written, hashed, fatal, res) ==
    [src |-> src, dst |-> dst, hasher |-> hasher, red |-> red,
     written |-> written, hashed |-> hashed, fatal |-> fatal, res |-> res]

RECURSIVE CopyLoop(_, _, _, _, _, _)

\* mutant: a destination error is marked fatal as well
ChunkDoneWriteFatal(src, w, h, red, written, hashed) ==
    IF ~h.ok
    THEN Stopped(src, w.sink, h.sink, red, written + w.written,
                 hashed + h.written, TRUE,
                 Err(IF w.ok THEN "hasher" ELSE "write+hasher"))
    ELSE IF ~w.ok
    THEN Stopped(src, w.sink, h.sink, red, written + w.written,
                 hashed + h.written, TRUE, Err("write"))
    ELSE CopyLoop(src, w.sink, h.sink, red, written + w.written,
                  hashed + h.written)

\* the callback's end: w and h are what the two try_write_all returned; a
\* hasher error is fatal and returned first, then the write error
ChunkDone(src, w, h, red, written, hashed) ==
    IF ~h.ok
    THEN Stopped(src, w.sink, h.sink, red, written + w.written,
                 hashed + h.written, TRUE,
                 Err(IF w.ok THEN "hasher" ELSE "write+hasher"))
    ELSE IF ~w.ok
    THEN Stopped(src, w.sink, h.sink, red, written + w.written,
                 hashed + h.written, FALSE, Err("write"))
    ELSE CopyLoop(src, w.sink, h.sink, red, written + w.written,
                  hashed + h.written)

\* the callback once the chunk went to dst: the hasher is fed
ChunkWritten(src, chunk, w, hasher, red, written, hashed) ==
    CHOOSE run \in { ChunkDone(src, w, h, red + Len(chunk), written, hashed) :
                       h \in { TryWriteAll(hasher,
                                           HashedPrefix(chunk, w.written)) } } :
       TRUE

\* process_chunks once read_nointr returned `got`
ChunkRead(got, dst, hasher, red, written, hashed) ==
    IF got.kind = "err"
    THEN Stopped(got.rd, dst, hasher, red, written, hashed, FALSE, Err("read"))
    ELSE IF got.bytes = <<>>
    THEN Stopped(got.rd, dst, hasher, red, written, hashed, FALSE, Ok)
    ELSE CHOOSE run \in { ChunkWritten(got.rd, got.bytes, w, hasher, red,
                                       written, hashed) :
                            w \in { TryWriteAll(dst, got.bytes) } } : TRUE

\* process_chunks with copy_and_hash_with's callback, one chunk per round
CopyLoop(src, dst, hasher, red, written, hashed) ==
    CHOOSE run \in { ChunkRead(got, dst, hasher, red, written, hashed) :
                       got \in { ReadNoIntr(src, ChunkCap) } } : TRUE

\* copy_and_hash_with after the loop: the backstop may force fatal
AfterLoop(run) ==
    [run EXCEPT !.fatal = Backstop(run.fatal, run.written, run.hashed)]

\* copy_and_hash_with: (written, fatal, res), with the objects it consumed
CopyAndHashWith(src, dst, hasher) ==
    AfterLoop(CopyLoop(src, dst, hasher, 0, 0, 0))

\* the digest string: URL-safe base64 of SHA3-256 over what the hasher was
\* fed; the model takes the digest to be collision-free
Sha3Digest(fed) == [alg |-> "Sha3_256", of |-> fed]

\* the tuple copy_and_optionally_hash returns, with the destination as left
Copied(hash, run) ==
    [hash |-> hash, written |-> run.written, fatal |-> run.fatal,
     res |-> run.res, dst |-> run.dst, red |-> run.red]

\* copy_and_hash: the hasher finalized and encoded
Hashed(run) == Copied(Some(Sha3Digest(run.hasher.acc)), run)

\* copy_and_hash: the engine with the production hasher
CopyAndHash(src, dst, hasher) == Hashed(CopyAndHashWith(src, dst, hasher))

\* copy_without_hash: the engine with a discarding hash sink
CopyWithoutHash(src, dst) ==
    Copied(None, CopyAndHashWith(src, dst, NullBuffer))

\* copy_and_optionally_hash
CopyAndOptionallyHash(with_hash, src, dst, hasher) ==
    IF with_hash THEN CopyAndHash(src, dst, hasher) ELSE CopyWithoutHash(src, dst)

\* hash_data's match on (hash, written, fatal, res)
HashDataMatch(run) ==
    IF ~run.fatal /\ run.res.ok
    THEN [ok |-> TRUE, err |-> "none", hash |-> run.hash[1], red |-> run.red,
          warned |-> FALSE]
    ELSE IF run.fatal /\ ~run.res.ok
    THEN [ok |-> FALSE, err |-> run.res.err, hash |-> run.hash[1],
          red |-> run.red, warned |-> FALSE]
    ELSE IF run.fatal
    THEN [ok |-> FALSE, err |-> "fatal_without_error", hash |-> run.hash[1],
          red |-> run.red, warned |-> FALSE]
    ELSE [ok |-> TRUE, err |-> "none", hash |-> run.hash[1], red |-> run.red,
          warned |-> TRUE]

\* hash_data: the digest of a stream, the destination being a discard sink
HashData(src, hasher) == HashDataMatch(CopyAndHash(src, NullBuffer, hasher))

----------------------------------------------------------------------------
(* index.rs: slices and fragments; main.rs: the segment algebra.           *)

Slice(start, end) == [start |-> start, end |-> end]

\* Slice::len (u64 subtraction)
SliceLen(s) == s.end - s.start

\* Fragment: meta.name, groups, location (a file path), hashes, geometry
Fragment(name, groups, path, hashes, geometry) ==
    [name |-> name, groups |-> groups, path |-> path, hashes |-> hashes,
     geometry |-> geometry]

\* Fragment::in_group
InGroup(frag, group) == \E i \in 1..Len(frag.groups) : frag.groups[i] = group

\* Fragment::is_named
IsNamed(frag, name) == \E i \in 1..Len(frag.name) : frag.name[i] = name

\* get_fragment_group: the geometries of the group's fragments, in index order
RECURSIVE GetFragmentGroup(_, _)
GetFragmentGroup(fragments, group) ==
    IF fragments = <<>> THEN <<>>
    ELSE (IF InGroup(Head(fragments), group)
          THEN <<Head(fragments).geometry>> ELSE <<>>)
         \o GetFragmentGroup(Tail(fragments), group)

\* the sort key (frag.start, frag.end), compared as a tuple
KeyLeq(a, b) == a.start < b.start \/ (a.start = b.start /\ a.end <= b.end)

\* x put after the elements of a sorted list whose key is not larger
InsertByKey(sorted, x) ==
    LET k == Cardinality({i \in 1..Len(sorted) : KeyLeq(sorted[i], x)})
    IN SubSeq(sorted, 1, k) \o <<x>> \o SubSeq(sorted, k + 1, Len(sorted))

\* sort_by_key: a stable sort, here by insertion
RECURSIVE SortByKey(_)
SortByKey(segs) ==
    IF segs = <<>> THEN <<>>
    ELSE InsertByKey(SortByKey(SubSeq(segs, 1, Len(segs) - 1)), segs[Len(segs)])

\* the cursor after a segment that starts at or before it: seg.end
Advance(cursor, seg) == seg.end

\* the for loop of determine_next_backup over the sorted segments
RECURSIVE WalkSegments(_, _, _)
WalkSegments(segs, i, to_backup) ==
    IF i > Len(segs) THEN to_backup
    ELSE IF segs[i].start <= to_backup.start
    THEN WalkSegments(segs, i + 1,
                      [to_backup EXCEPT !.start = Advance(to_backup.start, segs[i])])
    ELSE [to_backup EXCEPT !.end = segs[i].start]

\* (to_backup.start < to_backup.end).then_some(to_backup)
ThenSome(to_backup) ==
    IF to_backup.start < to_backup.end THEN Some(to_backup) ELSE None

\* mutant: the segments walked in index order
DetermineNextBackupUnsorted(fragments, to_backup, group) ==
    ThenSome(WalkSegments(GetFragmentGroup(fragments, group), 1, to_backup))

\* determine_next_backup: Some(uncovered slice) or None
DetermineNextBackup(fragments, to_backup, group) ==
    ThenSome(WalkSegments(SortByKey(GetFragmentGroup(fragments, group)), 1,
                          to_backup))

----------------------------------------------------------------------------
(* index.rs: lookup by alias.                                              *)

\* the fold of get_fragment_by_name from position i on: state is
\* [ok, found, no, err], an error once two fragments carry the alias
RECURSIVE LookupFold(_, _, _, _)
LookupFold(fragments, name, i, state) ==
    IF i > Len(fragments) THEN state
    ELSE LookupFold(fragments, name, i + 1,
            IF ~IsNamed(fragments[i], name) \/ ~state.ok THEN state
            ELSE IF state.found
            THEN [ok |-> FALSE, found |-> TRUE, no |-> state.no, err |-> "ambiguous"]
            ELSE [ok |-> TRUE, found |-> TRUE, no |-> i, err |-> "none"])

\* mutant: a second carrier of the alias is not an error
LookupResultFirst(state) ==
    IF ~state.found
    THEN [ok |-> FALSE, found |-> FALSE, no |-> 0, err |-> "not_found"]
    ELSE [ok |-> TRUE, found |-> TRUE, no |-> state.no, err |-> "none"]

\* the end of get_fragment_by_name: the fold's error, or not found, or the
\* position
LookupResult(state) ==
    IF ~state.ok THEN state
    ELSE IF ~state.found
    THEN [ok |-> FALSE, found |-> FALSE, no |-> 0, err |-> "not_found"]
    ELSE state

\* Index::get_fragment_by_name: the position of the one fragment so named
GetFragmentByName(fragments, name) ==
    LookupResult(LookupFold(fragments, name, 1,
                   [ok |-> TRUE, found |-> FALSE, no |-> 0, err |-> "none"]))

----------------------------------------------------------------------------
(* main.rs: the workflows.  One invocation of the binary works on a        *)
(* context c: the arguments, the behaviour of the system calls (env), the  *)
(* index as loaded (idx), the file system (fs), what has happened so far   *)
(* (events) and, at the end, result, status and outcome.                   *)

\* exit statuses
ExitCreated == 0
ExitComplete == 0
ExitPartial == 3
ExitAlreadyComplete == 3
ExitRestored == 0
ExitNoOverlap == 0
ExitVerified == 0
ExitUnverifiable == 3
\* main returns Err: the runtime reports failure
ExitFailure == 1

RelPaths == {"src", "d1", "d2"}
CanonPaths == {"/cwd/src", "/cwd/d1", "/cwd/d2"}

\* fs::canonicalize followed by pretty_path, the working directory being /cwd
Canonicalize(path) ==
    CASE path = "src" -> "/cwd/src"
      [] path = "d1" -> "/cwd/d1"
      [] path = "d2" -> "/cwd/d2"

\* uuidgen: the n-th identifier handed out
UuidNames == <<"u1", "u2", "u3", "u4", "u5", "u6", "u7", "u8">>
Uuidgen(n) == UuidNames[n]

\* the element of a one-element set: binds a computed value once
TheOne(S) == CHOOSE x \in S : TRUE

Running(c) == c.result = "running"

Finish(c, result, status, outcome) ==
    [c EXCEPT !.result = result, !.status = status, !.outcome = outcome]

\* the handler returns Err(why)
Fail(c, why) == Finish(c, "err", ExitFailure, why)

Event(c, e) == [c EXCEPT !.events = Append(@, e)]

\* main: the index file is read and parsed before the command is run
LoadIndex(c) ==
    IF c.env.fault = "load" THEN Fail(c, "load") ELSE c

(* write_backup, statement by statement.  Each part takes the context the  *)
(* previous one left and passes it on untouched once the handler has       *)
(* returned or the process has exited.                                     *)

\* the index and its main fragment
WB_Lookup(c) ==
    IF ~Running(c) THEN c
    ELSE IF ~c.loaded THEN Fail(c, "index_missing")
    ELSE TheOne({ IF ~main_frag.ok THEN Fail(c, main_frag.err)
                  ELSE [c EXCEPT !.main_geom = c.idx[main_frag.no].geometry,
                                 !.main_path = c.idx[main_frag.no].path] :
                  main_frag \in { GetFragmentByName(c.idx, "main") } })

\* mutant: the destination file is created before the index is consulted
WB_DetermineAfterCreate(c) ==
    IF ~Running(c) THEN c
    ELSE TheOne({ IF to_backup = None
                  THEN Finish(made, "exit", ExitAlreadyComplete, "already_complete")
                  ELSE [c EXCEPT !.to_backup = to_backup] :
                  to_backup \in { DetermineNextBackup(c.idx, c.main_geom,
                                                      c.group) },
                  made \in { Event([c EXCEPT !.fs[Canonicalize(c.path)] =
                                       [exists |-> TRUE, data |-> <<>>]],
                                   "create_dest") } })

\* what is left to back up; exit(3) when nothing is
WB_Determine(c) ==
    IF ~Running(c) THEN c
    ELSE TheOne({ IF to_backup = None
                  THEN Finish(c, "exit", ExitAlreadyComplete, "already_complete")
                  ELSE [c EXCEPT !.to_backup = to_backup] :
                  to_backup \in { DetermineNextBackup(c.idx, c.main_geom,
                                                      c.group) } })

\* the main data file is opened and seeked, the destination created
\* (truncated when it exists), its path canonicalized
WB_OpenFiles(c) ==
    IF ~Running(c) THEN c
    ELSE IF c.env.fault = "open_src" \/ ~c.fs[c.main_path].exists
    THEN Fail(c, "open_src")
    ELSE IF c.env.fault = "seek" THEN Fail(c, "seek")
    ELSE IF c.env.fault = "create_dest" THEN Fail(c, "create_dest")
    ELSE LET dest == Canonicalize(c.path)
             made == Event([c EXCEPT !.fs[dest] = [exists |-> TRUE, data |-> <<>>]],
                           "create_dest")
         IN IF c.env.fault = "canon" THEN Fail(made, "canonicalize") ELSE made

\* the reader handed to the engine: the main data file from the start of
\* the range on
WB_Source(c) ==
    FileReader(c.fs[c.main_path].data, c.to_backup[1].start,
               c.env.rd.faulty, c.env.rd.err_at, c.env.rd.intr)

\* the copy into the destination file
WB_Copy(c) ==
    IF ~Running(c) THEN c
    ELSE TheOne({
           Event([c EXCEPT !.fs[Canonicalize(c.path)].data = run.dst.acc,
                           !.written = run.written, !.fatal = run.fatal,
                           !.res = run.res, !.hash = run.hash],
                 "copy") :
           run \in { CopyAndOptionallyHash(c.with_hash, WB_Source(c),
                                           c.env.dst, c.env.hasher) } })

\* mutant: the fatal bit is not looked at
WB_FatalGateIgnored(c) == c

\* the fatal bit
WB_FatalGate(c) ==
    IF ~Running(c) THEN c
    ELSE IF c.fatal
    THEN Fail(c, IF c.res.ok THEN "fatal_without_error" ELSE c.res.err)
    ELSE c

\* mutant: a copy that wrote nothing goes on like any other
WB_ZeroGateIgnored(c) == c

\* nothing written and no fatal error
WB_ZeroGate(c) ==
    IF ~Running(c) THEN c
    ELSE IF c.written = 0
    THEN Fail(c, IF c.res.ok THEN "nothing_written" ELSE c.res.err)
    ELSE c

\* mutant: the error of sync_data is dropped
WB_SyncUnchecked(c) ==
    IF ~Running(c) THEN c
    ELSE IF c.env.fault = "sync" THEN Event(c, "sync_failed")
    ELSE Event(c, "sync")

\* sync_data on the destination, its error returned
WB_Sync(c) ==
    IF ~Running(c) THEN c
    ELSE IF c.env.fault = "sync" THEN Fail(Event(c, "sync_failed"), "sync")
    ELSE Event(c, "sync")

\* mutant: the range asked for is recorded, not the part written
ActuallyBackedUpAsAsked(to_backup, written) == to_backup

\* what was actually backed up: the written bytes from the range's start
ActuallyBackedUp(to_backup, written) ==
    Slice(to_backup.start, to_backup.start + written)

\* mutant: the new fragment is tagged with the group "main"
WB_PushAsMain(c) ==
    IF ~Running(c) THEN c
    ELSE LET frag == Fragment(<<Uuidgen(c.uuid + 1)>>, <<"main">>,
                              Canonicalize(c.path), c.hash,
                              ActuallyBackedUp(c.to_backup[1], c.written))
         IN Event([c EXCEPT !.idx = Append(@, frag), !.uuid = @ + 1], "push")

\* the new fragment is pushed onto the index
WB_Push(c) ==
    IF ~Running(c) THEN c
    ELSE LET frag == Fragment(<<Uuidgen(c.uuid + 1)>>, <<c.group>>,
                              Canonicalize(c.path), c.hash,
                              ActuallyBackedUp(c.to_backup[1], c.written))
         IN Event([c EXCEPT !.idx = Append(@, frag), !.uuid = @ + 1], "push")

\* mutant: the status is "more remains" whatever the index covers
WB_ReportPartial(c) ==
    IF ~Running(c) THEN c
    ELSE Finish(c, "ok", ExitPartial, "partial")

\* the status returned with the index
WB_Report(c) ==
    IF ~Running(c) THEN c
    ELSE IF DetermineNextBackup(c.idx, c.main_geom, c.group) = None
    THEN Finish(c, "ok", ExitComplete, "complete")
    ELSE Finish(c, "ok", ExitPartial, "partial")

\* mutant: the digest is not kept in the index
CreateIndexNoDigest(c, hash, len) ==
    LET main_frag == Fragment(<<"main", Uuidgen(c.uuid + 1)>>, <<"main">>,
                              Canonicalize(c.path), None, Slice(0, len))
    IN Finish([c EXCEPT !.idx = <<main_frag>>, !.uuid = @ + 1],
              "ok", ExitCreated, "created")

\* create: the index with the one fragment "main"
CreateIndex(c, hash, len) ==
    LET main_frag == Fragment(<<"main", Uuidgen(c.uuid + 1)>>, <<"main">>,
                              Canonicalize(c.path), hash, Slice(0, len))
    IN Finish([c EXCEPT !.idx = <<main_frag>>, !.uuid = @ + 1],
              "ok", ExitCreated, "created")

\* create, with hashing: the digest by hash_data, the length checked
\* against the one seek found
CreateHashed(c, data, seekable, h) ==
    IF ~h.ok THEN Fail(c, h.err)
    ELSE IF seekable /\ h.red # Len(data) THEN Fail(c, "length_mismatch")
    ELSE CreateIndex(c, Some(h.hash), IF seekable THEN Len(data) ELSE h.red)

\* create, once it is known that there is no index yet
CreateFresh(c) ==
    IF c.env.fault = "canon" \/ ~c.fs[Canonicalize(c.path)].exists
    THEN Fail(c, "canonicalize")
    ELSE IF c.env.fault = "open_src" THEN Fail(c, "open_src")
    ELSE LET data == c.fs[Canonicalize(c.path)].data
             seekable == c.env.fault # "seek"
             file == FileReader(data, 0, c.env.rd.faulty, c.env.rd.err_at,
                                c.env.rd.intr)
         IN IF ~c.with_hash /\ seekable THEN CreateIndex(c, None, Len(data))
            ELSE IF ~c.with_hash
            THEN \* io::copy into NullBuffer counts the bytes
                 IF file.faulty /\ file.err_at <= Len(data)
                 THEN Fail(c, "read")
                 ELSE CreateIndex(c, None, Len(data))
            ELSE TheOne({ CreateHashed(c, data, seekable, h) :
                            h \in { HashData(file, c.env.hasher) } })

\* mutant: an existing index is overwritten
CreateOverwriting(c) ==
    IF ~Running(c) THEN c
    ELSE CreateFresh(c)

\* create: refused when there is an index already
Create(c) ==
    IF ~Running(c) THEN c
    ELSE IF c.loaded THEN Fail(c, "index_exists")
    ELSE CreateFresh(c)

(* restore_from_fragment, statement by statement. *)

\* the index, the source fragment and the destination fragment, which is
\* "main" when none is named
RS_Lookup(c) ==
    IF ~Running(c) THEN c
    ELSE IF ~c.loaded THEN Fail(c, "index_missing")
    ELSE TheOne({ IF ~src.ok THEN Fail(c, src.err)
                  ELSE IF ~dst.ok THEN Fail(c, dst.err)
                  ELSE [c EXCEPT !.src_no = src.no, !.dst_no = dst.no] :
                  src \in { GetFragmentByName(c.idx, c.src_name) },
                  dst \in { GetFragmentByName(c.idx,
                                IF c.dst_name = None THEN "main"
                                ELSE c.dst_name[1]) } })

\* the overlap of the two geometries
CopyGeo(src_geo, dst_geo) ==
    Slice(Max(src_geo.start, dst_geo.start), Min(src_geo.end, dst_geo.end))

RS_Geometry(c) ==
    IF ~Running(c) THEN c
    ELSE [c EXCEPT !.copy_geo = CopyGeo(c.idx[c.src_no].geometry,
                                        c.idx[c.dst_no].geometry)]

\* the stored digest of a fragment as the reference, an error without one
TakeRefHash(c, from, frag, why) ==
    IF frag.hashes = None THEN Fail(c, why)
    ELSE [c EXCEPT !.ref_from = from, !.ref_hash = frag.hashes]

\* mutant: the destination fragment is asked first
RS_RefHashDestFirst(c) ==
    IF ~Running(c) \/ ~c.with_hash THEN c
    ELSE IF c.copy_geo = c.idx[c.dst_no].geometry
    THEN TakeRefHash(c, "dst", c.idx[c.dst_no], "dst_no_hash")
    ELSE IF c.copy_geo = c.idx[c.src_no].geometry
    THEN TakeRefHash(c, "src", c.idx[c.src_no], "src_no_hash")
    ELSE Fail(c, "no_reference")

\* the reference digest, when hashing is on
RS_RefHash(c) ==
    IF ~Running(c) \/ ~c.with_hash THEN c
    ELSE IF c.copy_geo = c.idx[c.src_no].geometry
    THEN TakeRefHash(c, "src", c.idx[c.src_no], "src_no_hash")
    ELSE IF c.copy_geo = c.idx[c.dst_no].geometry
    THEN TakeRefHash(c, "dst", c.idx[c.dst_no], "dst_no_hash")
    ELSE Fail(c, "no_reference")

\* no overlap: nothing to copy
RS_Overlap(c) ==
    IF ~Running(c) THEN c
    ELSE IF c.copy_geo.end <= c.copy_geo.start
    THEN Finish(c, "ok", ExitNoOverlap, "no_overlap")
    ELSE c

\* the source fragment's file is opened and seeked to the overlap
RS_OpenSrc(c) ==
    IF ~Running(c) THEN c
    ELSE IF c.env.fault = "open_src" \/ ~c.fs[c.idx[c.src_no].path].exists
    THEN Fail(c, "open_src")
    ELSE IF c.env.fault = "seek" THEN Fail(Event(c, "open_src"), "seek")
    ELSE Event(c, "open_src")

\* ftruncate: the file cut or extended with zeros to n bytes
Resized(data, n) ==
    [i \in 1..n |-> IF i <= Len(data) THEN data[i] ELSE 0]

\* the destination fragment's file is opened (created when missing, never
\* truncated), set to the length of the destination geometry if ftruncate
\* succeeds, and seeked to the overlap
RS_OpenDst(c) ==
    IF ~Running(c) THEN c
    ELSE IF c.env.fault = "create_dest" THEN Fail(c, "open_dst")
    ELSE LET dest == c.idx[c.dst_no].path
             data == IF c.fs[dest].exists THEN c.fs[dest].data ELSE <<>>
             sized == IF c.env.fault = "ftruncate" THEN data
                      ELSE Resized(data, SliceLen(c.idx[c.dst_no].geometry))
             opened == Event([c EXCEPT !.fs[dest] =
                                [exists |-> TRUE, data |-> sized]], "open_dst")
         IN IF c.env.fault = "seek_dst" THEN Fail(opened, "seek") ELSE opened

\* the reader handed to the engine: the source file from the overlap on,
\* bounded to the overlap's length
RS_Source(c) ==
    TruncateReadStream(
        FileSeek(FileReader(c.fs[c.idx[c.src_no].path].data, 0, c.env.rd.faulty,
                            c.env.rd.err_at, c.env.rd.intr),
                 c.copy_geo.start - c.idx[c.src_no].geometry.start),
        SliceLen(c.copy_geo))

\* a file after bytes were written at offset off
WriteAt(data, off, bytes) ==
    IF bytes = <<>> THEN data
    ELSE [i \in 1..Max(Len(data), off + Len(bytes)) |->
            IF i > off /\ i <= off + Len(bytes) THEN bytes[i - off]
            ELSE IF i <= Len(data) THEN data[i]
            ELSE 0]

\* the copy into the destination file, from the overlap's offset on
RS_Copy(c) ==
    IF ~Running(c) THEN c
    ELSE TheOne({
           Event([c EXCEPT !.fs[c.idx[c.dst_no].path].data =
                              WriteAt(@, c.copy_geo.start
                                           - c.idx[c.dst_no].geometry.start,
                                      run.dst.acc),
                           !.written = run.written, !.fatal = run.fatal,
                           !.res = run.res, !.hash = run.hash],
                 "copy") :
           run \in { CopyAndOptionallyHash(c.with_hash, RS_Source(c),
                                           c.env.dst, c.env.hasher) } })

\* the fatal bit
RS_FatalGate(c) ==
    IF ~Running(c) THEN c
    ELSE IF c.fatal
    THEN Fail(c, IF c.res.ok THEN "fatal_without_error" ELSE c.res.err)
    ELSE c

\* mutant: the number of bytes written is not compared with the overlap
RS_VerifyDigestOnly(c) ==
    IF ~Running(c) THEN c
    ELSE IF c.hash # c.ref_hash THEN Fail(c, "hash_mismatch")
    ELSE Finish(c, "ok", ExitRestored, "restored")

\* the two checks at the end: everything copied, the digest as referenced
RS_Verify(c) ==
    IF ~Running(c) THEN c
    ELSE IF c.written # SliceLen(c.copy_geo) THEN Fail(c, "incomplete")
    ELSE IF c.hash # c.ref_hash THEN Fail(c, "hash_mismatch")
    ELSE Finish(c, "ok", ExitRestored, "restored")

(* validate_hash. *)

\* the fragment and its stored digest
VH_Lookup(c) ==
    IF ~Running(c) THEN c
    ELSE IF ~c.loaded THEN Fail(c, "index_missing")
    ELSE TheOne({ IF ~frag.ok THEN Fail(c, frag.err)
                  ELSE [c EXCEPT !.src_no = frag.no,
                                 !.ref_hash = c.idx[frag.no].hashes,
                                 !.ref_from = "src"] :
                  frag \in { GetFragmentByName(c.idx, c.src_name) } })

\* the match on the stored digest
VH_Compare(c, h) ==
    IF ~h.ok THEN Fail(c, h.err)
    ELSE IF c.ref_hash = None
    THEN Finish([c EXCEPT !.hash = Some(h.hash), !.written = h.red], "ok",
                ExitUnverifiable, "unverifiable")
    ELSE IF Some(h.hash) = c.ref_hash
    THEN Finish([c EXCEPT !.hash = Some(h.hash), !.written = h.red], "ok",
                ExitVerified, "verified")
    ELSE Fail([c EXCEPT !.hash = Some(h.hash), !.written = h.red],
              "hash_mismatch")

\* mutant: the fragment's file hashed to its end
VH_HashWholeFile(c) ==
    IF ~Running(c) THEN c
    ELSE IF c.env.fault = "open_src" \/ ~c.fs[c.idx[c.src_no].path].exists
    THEN Fail(c, "open_src")
    ELSE TheOne({ VH_Compare(Event(c, "open_src"), h) :
           h \in { HashData(
                     FileReader(c.fs[c.idx[c.src_no].path].data, 0,
                                c.env.rd.faulty, c.env.rd.err_at,
                                c.env.rd.intr),
                     c.env.hasher) } })

\* the fragment's file hashed, bounded to the length of its geometry
VH_Hash(c) ==
    IF ~Running(c) THEN c
    ELSE IF c.env.fault = "open_src" \/ ~c.fs[c.idx[c.src_no].path].exists
    THEN Fail(c, "open_src")
    ELSE TheOne({ VH_Compare(Event(c, "open_src"), h) :
           h \in { HashData(
                     TruncateReadStream(
                        FileReader(c.fs[c.idx[c.src_no].path].data, 0,
                                   c.env.rd.faulty, c.env.rd.err_at,
                                   c.env.rd.intr),
                        SliceLen(c.idx[c.src_no].geometry)),
                     c.env.hasher) } })

\* main: a handler's Ok((status, index)) is written back with fs::write,
\* anything else leaves the index file alone
Main(c) ==
    IF c.result = "ok" /\ c.cmd \in {"create", "write_backup"}
    THEN IF c.env.fault = "store"
         THEN [Fail(c, "store") EXCEPT !.stored = FALSE]
         ELSE [Event(c, "store_index") EXCEPT !.stored = TRUE]
    ELSE [c EXCEPT !.stored = FALSE]

----------------------------------------------------------------------------
(* Spec: the workflows against one index file and three data files.        *)

NominalDst == FileSink(FALSE, 0, ChunkCap, 0)
NominalHasher == HashSink(FALSE, 0, 0)
NominalRd == [faulty |-> FALSE, err_at |-> 0, intr |-> 0]

Faults == {"none", "load", "open_src", "seek", "create_dest", "canon", "sync",
           "store"}

Env(fault, dst, hasher, rd) ==
    [fault |-> fault, dst |-> dst, hasher |-> hasher, rd |-> rd]

NominalEnv == Env("none", NominalDst, NominalHasher, NominalRd)

\* one system call of the invocation fails
FaultEnvs == { Env(f, NominalDst, NominalHasher, NominalRd) : f \in Faults }

\* the source fails at some offset, after an interrupted read
SourceEnvs ==
    { Env("none", NominalDst, NominalHasher,
          [faulty |-> TRUE, err_at |-> at, intr |-> 1]) : at \in 0..(MaxLen - 1) }

\* the hash sink fails, alone or in the chunk in which the destination fails
HasherEnvs(dsts) ==
    { Env("none", d, HashSink(TRUE, cap, 0), NominalRd) : d \in dsts, cap \in 0..1 }

\* the destination fills up, or takes short and interrupted writes
DestEnvs ==
    { Env("none", d, NominalHasher, NominalRd) :
        d \in { FileSink(TRUE, cap, ChunkCap, 0) : cap \in 0..(MaxLen - 1) }
              \cup { FileSink(FALSE, 0, 1, 1) } }

\* the source cannot seek and a read of it fails after the first byte
UnseekableFaultyEnvs ==
    { Env("seek", NominalDst, NominalHasher,
          [faulty |-> TRUE, err_at |-> 1, intr |-> 0]) }

CreateEnvs ==
    FaultEnvs \cup SourceEnvs \cup HasherEnvs({NominalDst})
    \cup UnseekableFaultyEnvs

\* the destination is full after one byte, and then the sync or the write
\* of the index file fails
FullThenFaultEnvs ==
    { Env(f, FileSink(TRUE, 1, ChunkCap, 0), NominalHasher, NominalRd) :
        f \in {"sync", "store"} }

BackupEnvs ==
    FaultEnvs \cup SourceEnvs \cup DestEnvs \cup FullThenFaultEnvs
    \cup HasherEnvs({NominalDst, FileSink(TRUE, 1, ChunkCap, 0)})

Dests == {"d1"}

\* the invocations of write-backup: any behaviour of the system calls for
\* the group "backup", and the group "main", which the main fragment covers
BackupInvocations ==
    { [dest |-> d, group |-> "backup", with_hash |-> h, env |-> e] :
        d \in Dests, h \in BOOLEAN, e \in BackupEnvs }
    \cup { [dest |-> d, group |-> "main", with_hash |-> TRUE, env |-> NominalEnv] :
             d \in Dests }

NoIndex == [exists |-> FALSE, fragments |-> <<>>]

\* the context an invocation starts with
Context(cmd, path, group, with_hash, src_name, dst_name, env) ==
    [cmd |-> cmd, env |-> env, path |-> path, group |-> group,
     with_hash |-> with_hash, src_name |-> src_name, dst_name |-> dst_name,
     loaded |-> disk_index.exists, idx |-> disk_index.fragments,
     fs |-> files, uuid |-> next_uuid, events |-> <<>>,
     main_geom |-> Slice(0, 0), main_path |-> "", to_backup |-> None,
     src_no |-> 0, dst_no |-> 0,
     written |-> 0, fatal |-> FALSE, res |-> Ok, hash |-> None,
     copy_geo |-> Slice(0, 0), ref_from |-> "none",
     ref_hash |-> None, result |-> "running", status |-> 0,
     outcome |-> "none", stored |-> FALSE]

\* what remains visible of an invocation once the process has exited: the
\* arguments, what the handler found and did, and how it ended
Report(c) ==
    [cmd |-> c.cmd, result |-> c.result, status |-> c.status,
     outcome |-> c.outcome, events |-> c.events, fatal |-> c.fatal,
     stored |-> c.stored, path |-> c.path, group |-> c.group,
     with_hash |-> c.with_hash, src_name |-> c.src_name,
     dst_name |-> c.dst_name, to_backup |-> c.to_backup,
     written |-> c.written, res |-> c.res, hash |-> c.hash,
     copy_geo |-> c.copy_geo, ref_from |-> c.ref_from,
     ref_hash |-> c.ref_hash]

\* the three classes of outcome the exit status has to tell apart
OutcomeClass(c) ==
    IF c.result = "err" THEN "failure"
    ELSE IF c.outcome = "partial" THEN "partial"
    ELSE "satisfied"

\* one run of the binary ends: the index file, the data files and the exit
Exit(done) ==
    /\ Len(done.idx) <= MaxFrags
    /\ disk_index' = IF done.stored
                     THEN [exists |-> TRUE, fragments |-> done.idx]
                     ELSE disk_index
    /\ files' = done.fs
    /\ next_uuid' = IF done.stored THEN done.uuid ELSE next_uuid
    /\ last' = Report(done)
    /\ observed' = IF done.cmd = "write_backup"
                   THEN observed \cup {<<OutcomeClass(done), done.status>>}
                   ELSE observed
    /\ UNCHANGED <<src_changes, cp, cov, ts, lk>>

\* one run of `create src`
CreateInvocation(with_hash, env) ==
    \E c0 \in { LoadIndex(Context("create", "src", "", with_hash, "", None, env)) } :
    \E c1 \in { Create(c0) } :
    \E done \in { Main(c1) } :
      Exit(done)

DoCreate ==
    \E with_hash \in BOOLEAN, env \in CreateEnvs :
      CreateInvocation(with_hash, env)

\* one run of `write-backup`
WriteBackupInvocation(inv) ==
    \E c0 \in { LoadIndex(Context("write_backup", inv.dest, inv.group,
                                  inv.with_hash, "", None, inv.env)) } :
    \E c1 \in { WB_Lookup(c0) } :
    \E c2 \in { WB_Determine(c1) } :
    \E c3 \in { WB_OpenFiles(c2) } :
    \E c4 \in { WB_Copy(c3) } :
    \E c5 \in { WB_FatalGate(c4) } :
    \E c6 \in { WB_ZeroGate(c5) } :
    \E c7 \in { WB_Sync(c6) } :
    \E c8 \in { WB_Push(c7) } :
    \E c9 \in { WB_Report(c8) } :
    \E done \in { Main(c9) } :
      Exit(done)

DoWriteBackup == \E inv \in BackupInvocations : WriteBackupInvocation(inv)

\* the environment: the source file is replaced by one of another length
SourceChanges ==
    /\ src_changes < MaxSrcChanges
    /\ src_changes' = src_changes + 1
    /\ \E n \in 0..MaxLen :
          /\ n # Len(files["/cwd/src"].data)
          /\ files' = [files EXCEPT !["/cwd/src"].data = Bytes(n)]
    /\ UNCHANGED <<disk_index, next_uuid, last, observed, cp, cov, ts, lk>>

Init ==
    /\ disk_index = NoIndex
    /\ files \in { [p \in CanonPaths |->
                      IF p = "/cwd/src"
                      THEN [exists |-> TRUE, data |-> Bytes(n)]
                      ELSE [exists |-> FALSE, data |-> <<>>]] :
                      n \in {MaxLen - 1} }
    /\ next_uuid = 0
    /\ last = [cmd |-> "none"]
    /\ observed = {}
    /\ src_changes = 0
    /\ cp = [phase |-> "idle"]
    /\ cov = [phase |-> "idle"]
    /\ ts = [phase |-> "idle"]
    /\ lk = [phase |-> "idle"]

Next == DoCreate \/ DoWriteBackup \/ SourceChanges

Spec == Init /\ [][Next]_vars

----------------------------------------------------------------------------
(* Properties of write-backup, checked under Spec.                         *)

Has(events, e) == \E i \in 1..Len(events) : events[i] = e

\* e1 is found in events, and before every e2
Before(events, e1, e2) ==
    \A j \in 1..Len(events) :
        events[j] = e2 => \E i \in 1..(j - 1) : events[i] = e1

LastFragment == disk_index.fragments[Len(disk_index.fragments)]

\* this step is one invocation of write-backup
WriteBackupStep == src_changes' = src_changes /\ last'.cmd = "write_backup"

\* the latest invocation was a write-backup that stored a new fragment
Appended == last.cmd = "write_backup" /\ last.stored

\* C1: every fragment write-backup appends with a digest records the digest
\* of exactly the bytes the destination accepted in that invocation, and
\* that byte sequence is as long as the fragment's geometry, whatever the
\* outcome of the copy (full, short writes, a failure partway).
C1_DigestOfAcceptedBytes ==
    (Appended /\ LastFragment.hashes # None) =>
        /\ LastFragment.hashes = Some(Sha3Digest(files[LastFragment.path].data))
        /\ Len(files[LastFragment.path].data) = SliceLen(LastFragment.geometry)

\* C1 witness: a hashed fragment appended after the destination failed
\* partway through a chunk
C1_Witness ==
    /\ Appended
    /\ LastFragment.hashes # None
    /\ last.res = Err("write")
    /\ last.written = 1

\* C2: when the copy engine reports a fatal outcome, the invocation of
\* write-backup fails, no fragment is appended and the index file is not
\* rewritten.
C2_FatalLeavesIndex ==
    [][(WriteBackupStep /\ last'.fatal) =>
          /\ last'.result = "err"
          /\ ~last'.stored
          /\ ~Has(last'.events, "push")
          /\ disk_index' = disk_index]_vars

\* C2 witness: a write-backup whose copy was fatal, with bytes already in
\* the destination
C2_Witness ==
    /\ last.cmd = "write_backup"
    /\ last.fatal
    /\ last.written > 0

\* the copy of this step's write-backup ended non-fatally after n bytes of
\* the uncovered range [s, e), 0 < n < e - s
PartialCopy ==
    /\ WriteBackupStep
    /\ Has(last'.events, "copy")
    /\ ~last'.fatal
    /\ 0 < last'.written
    /\ last'.written < SliceLen(last'.to_backup[1])

\* the index file gained exactly one fragment, of this step's group, with
\* geometry [s, s + n), and the next invocation for the group will compute
\* [s + n, e)
GainedPartialFragment ==
    /\ disk_index'.exists
    /\ Len(disk_index'.fragments) = Len(disk_index.fragments) + 1
    /\ SubSeq(disk_index'.fragments, 1, Len(disk_index.fragments))
         = disk_index.fragments
    /\ LET frag == disk_index'.fragments[Len(disk_index'.fragments)]
           s == last'.to_backup[1].start
           e == last'.to_backup[1].end
           n == last'.written
           main_frag == GetFragmentByName(disk_index'.fragments, "main")
       IN /\ frag.groups = <<last'.group>>
          /\ frag.geometry = Slice(s, s + n)
          /\ DetermineNextBackup(disk_index'.fragments,
                                 disk_index'.fragments[main_frag.no].geometry,
                                 last'.group)
               = Some(Slice(s + n, e))

\* C5 as stated: whenever the copy ends non-fatally after n bytes,
\* 0 < n < e - s, the index gains exactly one fragment of the group with
\* geometry [s, s + n) and the next invocation computes [s + n, e).
C5_PartialAlwaysRecorded == [][PartialCopy => GainedPartialFragment]_vars

\* C5 amended: the same, for the invocations in which the sync of the
\* destination and the write of the index file succeed after the copy.
C5_PartialRecordedWhenStored ==
    [][(PartialCopy /\ last'.result = "ok") => GainedPartialFragment]_vars

\* C5 witness: a destination that is full after one byte of a three-byte
\* range, and the fragment stored
C5_Witness ==
    /\ Appended
    /\ last.res = Err("write")
    /\ last.written = 1
    /\ SliceLen(last.to_backup[1]) = MaxLen
    /\ last.outcome = "partial"

\* C6: write-backup never writes more than the length of the uncovered
\* range [s, e) it computed, and the fragment it records lies inside [s, e).
C6_CopyBoundedToRange ==
    (last.cmd = "write_backup" /\ Has(last.events, "copy")) =>
        /\ last.written <= SliceLen(last.to_backup[1])
        /\ Appended =>
             /\ LastFragment.geometry.start >= last.to_backup[1].start
             /\ LastFragment.geometry.end <= last.to_backup[1].end

\* C7: when the group already covers the main geometry, write-backup
\* reports already-complete without creating, truncating or writing a data
\* file and without changing the index file.
C7_AlreadyCompleteTouchesNothing ==
    [][(WriteBackupStep /\ last'.outcome = "already_complete") =>
          /\ last'.events = <<>>
          /\ files' = files
          /\ disk_index' = disk_index]_vars

\* C7 witness: already-complete reported while the destination file holds
\* the backup written before
C7_Witness ==
    /\ last.cmd = "write_backup"
    /\ last.outcome = "already_complete"
    /\ last.group = "backup"
    /\ files["/cwd/d1"].exists
    /\ files["/cwd/d1"].data # <<>>

\* C8: the exit status tells the outcomes apart: satisfied (complete or
\* already complete), partial progress, and failure never share a code.
C8_ExitCodesDistinct ==
    \A a \in observed : \A b \in observed : a[1] # b[1] => a[2] # b[2]

\* C9: the destination is synced before the fragment is pushed and before
\* the index is stored; when the sync fails the invocation fails, no
\* fragment is pushed and the index file is unchanged.
C9_SyncBeforeCommit ==
    [][WriteBackupStep =>
          /\ Before(last'.events, "sync", "push")
          /\ Before(last'.events, "push", "store_index")
          /\ Has(last'.events, "sync_failed") =>
                /\ last'.result = "err"
                /\ ~Has(last'.events, "push")
                /\ ~last'.stored
                /\ disk_index' = disk_index]_vars

\* C9 witness: the sync failed after bytes were copied
C9_Witness ==
    /\ last.cmd = "write_backup"
    /\ Has(last.events, "sync_failed")
    /\ last.written > 0

\* this step is one invocation of create
CreateStep == src_changes' = src_changes /\ last'.cmd = "create"

\* C17: create fails whenever the index file exists and then leaves it as
\* it was; a create that succeeds wrote an index with exactly one fragment,
\* aliased "main", in the group "main", with the geometry [0, length of the
\* source file).
C17_CreateOutcome ==
    [][CreateStep =>
         /\ disk_index.exists =>
               (last'.result = "err" /\ disk_index' = disk_index)
         /\ last'.result = "ok" =>
               /\ ~disk_index.exists
               /\ disk_index'.exists
               /\ Len(disk_index'.fragments) = 1
               /\ IsNamed(disk_index'.fragments[1], "main")
               /\ disk_index'.fragments[1].groups = <<"main">>
               /\ disk_index'.fragments[1].geometry =
                     Slice(0, Len(files[Canonicalize("src")].data))]_vars

\* C21: a failure to canonicalize a path during create or write-backup is
\* never fatal: no invocation of either ends as an error because the
\* canonicalization failed.
C21_CanonicalizeTolerated ==
    [][(CreateStep \/ WriteBackupStep) =>
          ~(last'.result = "err" /\ last'.outcome = "canonicalize")]_vars

\* C23: write-backup never appends a fragment with an empty geometry: when
\* the copy ends non-fatally with zero bytes written, with or without an
\* error, the invocation fails and the index file is unchanged.
C23_NoEmptyFragment ==
    [][WriteBackupStep =>
         /\ (Has(last'.events, "copy") /\ ~last'.fatal /\ last'.written = 0) =>
               (last'.result = "err" /\ disk_index' = disk_index)
         /\ Len(disk_index'.fragments) > Len(disk_index.fragments) =>
               SliceLen(disk_index'.fragments[Len(disk_index'.fragments)].geometry)
                  > 0]_vars

\* C23 witness: the source file ends before the start of the uncovered
\* range, the copy read nothing and reported no error, and the invocation
\* failed
C23_Witness ==
    /\ last.cmd = "write_backup"
    /\ Has(last.events, "copy")
    /\ ~last.fatal
    /\ last.written = 0
    /\ last.res = Ok
    /\ last.result = "err"
    /\ last.to_backup # None
    /\ last.to_backup[1].start > 0
    /\ Len(files["/cwd/src"].data) <= last.to_backup[1].start

----------------------------------------------------------------------------
(* SpecCopy: copy_and_hash_with on every bounded source, destination and   *)
(* hash sink, and hash_data on the same source and hash sink.              *)

CopySources ==
    { FileReader(Bytes(len), 0, faulty, at, intr) :
        len \in 0..MaxLen, faulty \in BOOLEAN, at \in 0..MaxLen, intr \in 0..1 }

CopySinks ==
    { FileSink(limited, cap, short, intr) :
        limited \in BOOLEAN, cap \in 0..MaxLen, short \in 1..ChunkCap,
        intr \in 0..1 }

CopyHashers ==
    { HashSink(limited, cap, intr) :
        limited \in BOOLEAN, cap \in 0..MaxLen, intr \in 0..1 }
    \cup {NullBuffer}

CpIdle == [phase |-> "idle"]

IdleWorkflow ==
    /\ disk_index = [exists |-> FALSE, fragments |-> <<>>]
    /\ files = <<>>
    /\ next_uuid = 0
    /\ last = [cmd |-> "none"]
    /\ observed = {}
    /\ src_changes = 0

InitCopy ==
    /\ IdleWorkflow
    /\ cov = [phase |-> "idle"]
    /\ ts = [phase |-> "idle"]
    /\ lk = [phase |-> "idle"]
    /\ cp \in { [phase |-> "input", src |-> s, dst |-> d, hasher |-> h] :
                  s \in CopySources, d \in CopySinks, h \in CopyHashers }

RunCopy ==
    /\ cp.phase = "input"
    /\ cp' = [phase |-> "done", src |-> cp.src, dst |-> cp.dst,
              hasher |-> cp.hasher,
              out |-> CopyAndHashWith(cp.src, cp.dst, cp.hasher),
              digest |-> HashData(cp.src, cp.hasher)]
    /\ UNCHANGED <<disk_index, files, next_uuid, last, observed, src_changes, cov, ts, lk>>

NextCopy == RunCopy

SpecCopy == InitCopy /\ [][NextCopy]_vars

\* C3: when copy_and_hash_with returns a non-fatal outcome, the destination
\* has accepted exactly as many bytes as the hash sink was fed (and the
\* returned count is that number); whenever the written and hashed counters
\* differ, the returned fatal flag is true.
C3_NonFatalCountsAgree ==
    cp.phase = "done" =>
        /\ ~cp.out.fatal =>
              /\ Len(cp.out.dst.acc) = Len(cp.out.hasher.acc)
              /\ cp.out.written = Len(cp.out.dst.acc)
        /\ cp.out.written # cp.out.hashed => cp.out.fatal

\* C3 witness: a destination that takes short writes and then fails partway,
\* reported as a non-fatal error with bytes written
C3_Witness ==
    /\ cp.phase = "done"
    /\ ~cp.out.fatal
    /\ cp.out.res = Err("write")
    /\ cp.dst.short = 1
    /\ cp.out.written >= 1
    /\ cp.out.written < Len(cp.src.data)

\* a write to the hash sink failed: the sink is at its capacity and the
\* destination holds bytes the sink was not able to take
HasherFailed ==
    /\ cp.hasher.kind # "null"
    /\ cp.hasher.limited
    /\ Len(cp.out.hasher.acc) = cp.hasher.cap
    /\ Len(cp.out.dst.acc) > cp.hasher.cap

\* a write to the destination failed: it is at its capacity and a byte
\* that was read did not go into it
DestinationFailed ==
    /\ cp.dst.limited
    /\ Len(cp.out.dst.acc) = cp.dst.cap
    /\ cp.out.red > cp.dst.cap

\* a read of the source failed: the reader stands at its failing offset
SourceFailed ==
    /\ cp.src.faulty
    /\ cp.out.src.pos >= cp.src.err_at
    /\ cp.out.red = cp.out.written
    /\ cp.out.red = cp.out.hashed
    /\ cp.out.src.pos = cp.out.red

\* C22: copy_and_hash_with returns fatal = true exactly when a write to the
\* hash sink failed; it then returns an error and has read no chunk after
\* the one whose hashing failed.  A destination failure whose written
\* prefix was hashed and a source read failure end the copy with an error
\* and fatal = false.
C22_FatalIffHasherFailed ==
    cp.phase = "done" =>
        /\ cp.out.fatal <=> HasherFailed
        /\ cp.out.fatal =>
              /\ ~cp.out.res.ok
              /\ cp.out.src.pos = cp.out.red
              /\ cp.out.red - cp.out.hashed <= ChunkCap
        /\ (DestinationFailed /\ ~HasherFailed) =>
              (~cp.out.res.ok /\ ~cp.out.fatal)
        /\ SourceFailed => (~cp.out.res.ok /\ ~cp.out.fatal)

\* C22 witness: the hash sink failed in the first chunk of a longer source,
\* the destination took the whole chunk, and the rest was never read
C22_Witness ==
    /\ cp.phase = "done"
    /\ cp.out.fatal
    /\ HasherFailed
    /\ cp.out.red = ChunkCap
    /\ cp.out.written = ChunkCap
    /\ cp.out.hashed < ChunkCap
    /\ Len(cp.src.data) > ChunkCap
    /\ ~cp.src.faulty

\* the hash sink cannot take the whole of what the source gives
HasherTooSmall ==
    /\ cp.hasher.kind # "null"
    /\ cp.hasher.limited
    /\ cp.hasher.cap < (IF cp.src.faulty THEN Min(cp.src.err_at, Len(cp.src.data))
                        ELSE Len(cp.src.data))

\* C25: hash_data returns the digest when the engine ends without error,
\* returns the error of a fatal outcome, and after a non-fatal error, which
\* is a failed read of the source, warns and still returns a digest; the
\* digest it returns is the digest of the stream.
C25_DigestOfStream ==
    cp.phase = "done" =>
        /\ cp.digest.ok <=> ~HasherTooSmall
        /\ cp.digest.warned =>
              (cp.digest.ok /\ cp.src.faulty /\ cp.src.err_at <= Len(cp.src.data))
        /\ cp.digest.ok => cp.digest.hash = Sha3Digest(cp.src.data)

----------------------------------------------------------------------------
(* SpecCover: determine_next_backup on every bounded index.  The index     *)
(* holds the main fragment, in group "main", and up to MaxCover fragments  *)
(* of the backup group with any well-formed geometries.                    *)

Slices == { Slice(a, b) : a \in 0..MaxLen, b \in 0..MaxLen }
WellFormed == { s \in Slices : s.start <= s.end }

SeqsUpTo(S, n) == UNION { [1..k -> S] : k \in 0..n }

CoverFragment(geometry) ==
    Fragment(<<"u1">>, <<"backup">>, "/cwd/d1", None, geometry)

MainFragmentOf(geometry) ==
    Fragment(<<"main", "u0">>, <<"main">>, "/cwd/src", None, geometry)

CoverIndex(full, covering) ==
    <<MainFragmentOf(full)>> \o [i \in 1..Len(covering) |-> CoverFragment(covering[i])]

InitCover ==
    /\ IdleWorkflow
    /\ cp = CpIdle
    /\ ts = [phase |-> "idle"]
    /\ lk = [phase |-> "idle"]
    /\ cov \in { [phase |-> "input", full |-> f, covering |-> c] :
                   f \in WellFormed, c \in SeqsUpTo(WellFormed, MaxCover) }

RunCover ==
    /\ cov.phase = "input"
    /\ cov' = [phase |-> "done", full |-> cov.full, covering |-> cov.covering,
               out |-> DetermineNextBackup(CoverIndex(cov.full, cov.covering),
                                           cov.full, "backup")]
    /\ UNCHANGED <<disk_index, files, next_uuid, last, observed, src_changes, cp, ts, lk>>

NextCover == RunCover

SpecCover == InitCover /\ [][NextCover]_vars

\* whether offset x lies in one of the slices
CoveredBy(x, covering) ==
    \E i \in 1..Len(covering) : covering[i].start <= x /\ x < covering[i].end

\* the first uncovered extent of full, from the definition of coverage
TrueGap(full, covering) ==
    LET open == { x \in full.start..(full.end - 1) : ~CoveredBy(x, covering) }
    IN IF open = {} THEN None
       ELSE LET a == CHOOSE x \in open : \A y \in open : x <= y
                ends == { y \in (a + 1)..full.end :
                            y = full.end \/ CoveredBy(y, covering) }
                b == CHOOSE y \in ends : \A z \in ends : y <= z
            IN Some(Slice(a, b))

\* C4: next_uncovered returns Some exactly of the first uncovered extent of
\* the full range (from the smallest uncovered offset to the next covered
\* offset or the end of the range) and None exactly when every offset of the
\* full range is covered, for every covering multiset.
C4_GapIsTrueGap ==
    cov.phase = "done" => cov.out = TrueGap(cov.full, cov.covering)

\* the orders in which n fragments can stand in the index
IndexOrders(n) == { f \in [1..n -> 1..n] : \A i, j \in 1..n : f[i] = f[j] => i = j }

Permuted(covering, f) == [i \in 1..Len(covering) |-> covering[f[i]]]

\* C20: the result of determine_next_backup does not depend on the order
\* of the covering fragments in the index: every permutation of them gives
\* the same result for the same full range.
C20_OrderIndependent ==
    cov.phase = "done" =>
        \A f \in IndexOrders(Len(cov.covering)) :
            DetermineNextBackup(CoverIndex(cov.full, Permuted(cov.covering, f)),
                                cov.full, "backup") = cov.out

\* C20 witness: three covering fragments stand out of key order in the
\* index, a walk in index order would give another result, and an
\* uncovered slice was found
C20_Witness ==
    /\ cov.phase = "done"
    /\ Len(cov.covering) = 3
    /\ ~KeyLeq(cov.covering[1], cov.covering[2])
    /\ cov.out # None
    /\ cov.out # ThenSome(WalkSegments(cov.covering, 1, cov.full))

\* C24: a Some result of determine_next_backup is non-empty and lies in
\* the full range, and it does not start below the end of a slice merged
\* on the way (the slices that start at or before the result's start).
C24_ResultInsideFullRange ==
    (cov.phase = "done" /\ cov.out # None) =>
        /\ cov.out[1].start < cov.out[1].end
        /\ cov.out[1].start >= cov.full.start
        /\ cov.out[1].end <= cov.full.end
        /\ \A i \in 1..Len(cov.covering) :
              cov.covering[i].start <= cov.out[1].start =>
                 cov.covering[i].end <= cov.out[1].start

----------------------------------------------------------------------------
(* SpecRestore: one invocation of restore-from-fragment or validate-hash   *)
(* on an index with the main fragment and two backup fragments.  The       *)
(* backup fragments have every non-empty geometry inside the main one,     *)
(* with or without a stored digest; the file of the first one is intact,   *)
(* one byte short, altered, or one byte longer than its geometry.          *)

NonEmptySlices == { s \in WellFormed : s.start < s.end }

\* the bytes of the source file in a range
RangeBytes(geometry) == SubSeq(Bytes(MaxLen), geometry.start + 1, geometry.end)

FileStates == {"intact", "short", "altered", "long"}

FileInState(geometry, state) ==
    LET data == RangeBytes(geometry)
    IN [exists |-> TRUE,
        data |-> CASE state = "intact" -> data
                   [] state = "short" -> SubSeq(data, 1, Len(data) - 1)
                   [] state = "altered" -> [data EXCEPT ![1] = 0]
                   [] state = "long" -> data \o <<MaxLen + 1>>]

\* the digest write-backup stored for a range, if it stored one
StoredDigests(geometry) == {None, Some(Sha3Digest(RangeBytes(geometry)))}

RestoreIndex(ga, ha, gb, hb) ==
    [exists |-> TRUE,
     fragments |->
        << Fragment(<<"main", Uuidgen(1)>>, <<"main">>, "/cwd/src",
                    Some(Sha3Digest(Bytes(MaxLen))), Slice(0, MaxLen)),
           Fragment(<<Uuidgen(2)>>, <<"backup">>, "/cwd/d1", ha, ga),
           Fragment(<<Uuidgen(3)>>, <<"backup">>, "/cwd/d2", hb, gb) >>]

RestoreFiles(ga, sa, gb) ==
    [p \in CanonPaths |->
        CASE p = "/cwd/src" -> [exists |-> TRUE, data |-> Bytes(MaxLen)]
          [] p = "/cwd/d1" -> FileInState(ga, sa)
          [] p = "/cwd/d2" -> FileInState(gb, "intact")]

\* the behaviours of the system calls under restore and validate: one call
\* fails, the destination takes one byte less than the overlap may need,
\* the hash sink fails, a read of the source fails
RestoreFaults == {"none", "load", "open_src", "seek", "create_dest",
                  "ftruncate", "seek_dst"}

RestoreEnvs ==
    { Env(f, NominalDst, NominalHasher, NominalRd) : f \in RestoreFaults }
    \cup { Env("none", FileSink(TRUE, 1, ChunkCap, 0), NominalHasher, NominalRd),
           Env("none", NominalDst, HashSink(TRUE, 1, 0), NominalRd),
           Env("none", NominalDst, NominalHasher,
               [faulty |-> TRUE, err_at |-> 1, intr |-> 1]) }

\* the aliases an invocation may name: the three fragments and one that no
\* fragment carries
Aliases == {"main", Uuidgen(2), Uuidgen(3), Uuidgen(4)}

InitRestore ==
    /\ \E ga \in NonEmptySlices, gb \in NonEmptySlices, sa \in FileStates :
       \E ha \in StoredDigests(ga), hb \in StoredDigests(gb) :
          /\ disk_index = RestoreIndex(ga, ha, gb, hb)
          /\ files = RestoreFiles(ga, sa, gb)
    /\ next_uuid = 3
    /\ last = [cmd |-> "none"]
    /\ observed = {}
    /\ src_changes = 0
    /\ cp = CpIdle
    /\ cov = [phase |-> "idle"]
    /\ ts = [phase |-> "idle"]
    /\ lk = [phase |-> "idle"]

\* restore and validate return without the index: it is never written back
ExitRestore(done) ==
    /\ files' = done.fs
    /\ last' = Report(done)
    /\ UNCHANGED <<disk_index, next_uuid, observed, src_changes, cp, cov, ts, lk>>

\* one run of `restore-from-fragment`
RestoreInvocation(src_name, dst_name, with_hash, env) ==
    \E c0 \in { LoadIndex(Context("restore", "", "", with_hash, src_name,
                                  dst_name, env)) } :
    \E c1 \in { RS_Lookup(c0) } :
    \E c2 \in { RS_Geometry(c1) } :
    \E c3 \in { RS_RefHash(c2) } :
    \E c4 \in { RS_Overlap(c3) } :
    \E c5 \in { RS_OpenSrc(c4) } :
    \E c6 \in { RS_OpenDst(c5) } :
    \E c7 \in { RS_Copy(c6) } :
    \E c8 \in { RS_FatalGate(c7) } :
    \E c9 \in { RS_Verify(c8) } :
    \E done \in { Main(c9) } :
      ExitRestore(done)

\* one run of `validate-hash`
ValidateInvocation(frag, env) ==
    \E c0 \in { LoadIndex(Context("validate", "", "", TRUE, frag, None, env)) } :
    \E c1 \in { VH_Lookup(c0) } :
    \E c2 \in { VH_Hash(c1) } :
    \E done \in { Main(c2) } :
      ExitRestore(done)

DoRestore ==
    /\ last.cmd = "none"
    /\ \E src_name \in Aliases,
          dst_name \in {None} \cup { Some(a) : a \in Aliases \ {"main"} },
          with_hash \in BOOLEAN, env \in RestoreEnvs :
         RestoreInvocation(src_name, dst_name, with_hash, env)

DoValidateHash ==
    /\ last.cmd = "none"
    /\ \E frag \in Aliases, env \in RestoreEnvs :
         ValidateInvocation(frag, env)

NextRestore == DoRestore \/ DoValidateHash

SpecRestore == InitRestore /\ [][NextRestore]_vars

\* this step is one invocation of restore-from-fragment with hashing on
\* that loaded the index and found both fragments
HashedRestoreStep ==
    /\ last.cmd = "none"
    /\ last'.cmd = "restore"
    /\ last'.with_hash
    /\ last'.outcome \notin {"load", "index_missing", "not_found", "ambiguous"}

\* the fragment an alias stands for in the index file
FragmentNamed(name) ==
    disk_index.fragments[GetFragmentByName(disk_index.fragments, name).no]

\* the invocation failed before it opened a file: no data was copied
FailedBeforeCopy ==
    /\ last'.result = "err"
    /\ last'.events = <<>>
    /\ last'.written = 0
    /\ files' = files

\* the reference digest is the one stored with the fragment `from`, and
\* the invocation succeeds only with that digest computed; a fragment
\* without a stored digest makes the invocation fail before copying
ReferenceFrom(from, frag) ==
    IF frag.hashes = None THEN FailedBeforeCopy
    ELSE /\ last'.ref_from = from
         /\ last'.ref_hash = frag.hashes
         /\ last'.outcome = "restored" => last'.hash = frag.hashes

\* C10: with hashing on, restore-from-fragment takes the reference digest
\* from the source fragment when the overlap is the source's whole
\* geometry, else from the destination fragment when the overlap is the
\* destination's whole geometry, and else fails before copying any data; an
\* overlap that is a strict sub-range of both is always a failure.
C10_ReferenceSelection ==
    [][HashedRestoreStep =>
         LET src == FragmentNamed(last'.src_name)
             dst == FragmentNamed(IF last'.dst_name = None THEN "main"
                                  ELSE last'.dst_name[1])
             overlap == CopyGeo(src.geometry, dst.geometry)
         IN IF overlap = src.geometry THEN ReferenceFrom("src", src)
            ELSE IF overlap = dst.geometry THEN ReferenceFrom("dst", dst)
            ELSE FailedBeforeCopy]_vars

\* C10 witness: hashing on, the overlap a non-empty strict sub-range of the
\* source's and of the destination's geometry, and the invocation failed
C10_Witness ==
    /\ last.cmd = "restore"
    /\ last.with_hash
    /\ last.outcome = "no_reference"
    /\ last.copy_geo.start < last.copy_geo.end
    /\ last.copy_geo # FragmentNamed(last.src_name).geometry
    /\ last.copy_geo # FragmentNamed(last.dst_name[1]).geometry

\* the latest invocation was a restore-from-fragment that ran the copy
RestoreCopied == last.cmd = "restore" /\ Has(last.events, "copy")

\* C11: restore-from-fragment reports success after a copy only if the
\* number of bytes written is the overlap's length and, with hashing on,
\* the digest computed during the copy is the selected reference digest; a
\* copy that leaves fewer bytes written and a digest mismatch are failures.
C11_SuccessMeansVerified ==
    RestoreCopied =>
        /\ last.result = "ok" =>
              /\ last.status = ExitRestored
              /\ last.written = SliceLen(last.copy_geo)
              /\ last.with_hash =>
                    (last.hash # None /\ last.hash = last.ref_hash)
        /\ last.written # SliceLen(last.copy_geo) => last.result = "err"
        /\ (last.with_hash /\ last.hash # last.ref_hash) => last.result = "err"

\* C11 witness: the destination failed after one byte of a longer overlap,
\* a non-fatal error, and the invocation failed
C11_Witness ==
    /\ RestoreCopied
    /\ ~last.fatal
    /\ last.res = Err("write")
    /\ last.written = 1
    /\ SliceLen(last.copy_geo) > 1
    /\ last.outcome = "incomplete"

\* this step is one invocation of restore-from-fragment that loaded the
\* index and found both fragments
RestoreStep ==
    /\ last.cmd = "none"
    /\ last'.cmd = "restore"
    /\ last'.outcome \notin {"load", "index_missing", "not_found", "ambiguous"}

\* the overlap of the geometries of the two fragments this step names
StepOverlap ==
    CopyGeo(FragmentNamed(last'.src_name).geometry,
            FragmentNamed(IF last'.dst_name = None THEN "main"
                          ELSE last'.dst_name[1]).geometry)

\* C12: when the two geometries do not overlap (overlap end <= start),
\* restore-from-fragment returns success without opening or writing a data
\* file, with hashing on and with hashing off.
C12_NoOverlapIsNoOp ==
    [][(RestoreStep /\ StepOverlap.end <= StepOverlap.start) =>
          /\ last'.result = "ok"
          /\ last'.status = ExitNoOverlap
          /\ last'.events = <<>>
          /\ files' = files]_vars

\* this step is one invocation of validate-hash
ValidateStep == last.cmd = "none" /\ last'.cmd = "validate"

\* the first n bytes of a file, zeros standing in for what it lacks
BoundedContent(data, n) == SubSeq(data \o Zeros(n), 1, n)

\* C15: validate-hash hashes the fragment's file bounded to the length of
\* the fragment's geometry and ends in one of three ways: verified (exit 0)
\* when the stored digest equals the computed one, an error when a stored
\* digest differs, and an exit status that is neither 0 nor the error
\* status when the fragment stores no digest; the index file and the data
\* files are left as they were.
C15_ValidateOutcomes ==
    [][ValidateStep =>
         /\ disk_index' = disk_index
         /\ files' = files
         /\ <<last'.result, last'.status>> \in
               { <<"ok", ExitVerified>>, <<"ok", ExitUnverifiable>>,
                 <<"err", ExitFailure>> }
         /\ ExitUnverifiable \notin {0, ExitFailure}
         /\ last'.hash = None => last'.result = "err"
         /\ last'.hash # None =>
               LET frag == FragmentNamed(last'.src_name)
                   bound == SliceLen(frag.geometry)
               IN /\ last'.written <= bound
                  /\ last'.hash =
                        Some(Sha3Digest(SubSeq(BoundedContent(files[frag.path].data,
                                                              bound),
                                               1, last'.written)))
                  /\ IF frag.hashes = None
                     THEN last'.result = "ok" /\ last'.status = ExitUnverifiable
                     ELSE IF frag.hashes = last'.hash
                     THEN last'.result = "ok" /\ last'.status = ExitVerified
                     ELSE last'.result = "err"]_vars

\* C15 witness: a file longer than its fragment's geometry was verified
\* against the digest stored for the geometry
C15_Witness ==
    /\ last.cmd = "validate"
    /\ last.outcome = "verified"
    /\ last.src_name = Uuidgen(2)
    /\ Len(files["/cwd/d1"].data) > SliceLen(FragmentNamed(Uuidgen(2)).geometry)

----------------------------------------------------------------------------
(* SpecStream: reads and seeks on a TruncateReadStream built at inner      *)
(* position p with declared length n over a file of len bytes, shorter or  *)
(* longer than p + n.  ts.out collects what the reads returned, ts.op is   *)
(* the latest call with the adapter as it was before, ts.seeked tells      *)
(* whether a seek has succeeded so far.                                    *)

\* the buffer sizes of a read: at least one byte
BufSizes == 1..ChunkCap

SeekOffsets == (0 - 1 - MaxLen)..(MaxLen + 1)

InitStream ==
    /\ IdleWorkflow
    /\ cp = CpIdle
    /\ cov = [phase |-> "idle"]
    /\ lk = [phase |-> "idle"]
    /\ ts \in { [phase |-> "open", p |-> p, n |-> n,
                 t |-> TruncateReadStream(FileReader(Bytes(len), p, FALSE, 0, intr), n),
                 out |-> <<>>, seeked |-> FALSE, op |-> [kind |-> "none"]] :
                 len \in 0..MaxLen, p \in 0..MaxLen, n \in 0..MaxLen,
                 intr \in 0..1 }

StreamRead ==
    /\ ts.phase = "open"
    /\ \E size \in BufSizes :
       \E got \in { TruncateRead(ts.t, size) } :
          ts' = [ts EXCEPT !.t = got.rd, !.out = @ \o got.bytes,
                           !.op = [kind |-> "read", size |-> size,
                                   before |-> ts.t, result |-> got.kind,
                                   bytes |-> got.bytes]]
    /\ UNCHANGED <<disk_index, files, next_uuid, last, observed, src_changes,
                   cp, cov, lk>>

StreamSeek ==
    /\ ts.phase = "open"
    /\ \E from \in {"Start", "Current", "End"}, d \in SeekOffsets :
         /\ from = "Start" => d >= 0
         /\ \E got \in { TruncateSeek(ts.t, from, d) } :
              ts' = [ts EXCEPT !.t = got.rd,
                               !.seeked = @ \/ got.kind = "ok",
                               !.op = [kind |-> "seek", from |-> from, d |-> d,
                                       before |-> ts.t, result |-> got.kind,
                                       err |-> got.err, pos |-> got.pos]]
    /\ UNCHANGED <<disk_index, files, next_uuid, last, observed, src_changes,
                   cp, cov, lk>>

NextStream == StreamRead \/ StreamSeek

SpecStream == InitStream /\ [][NextStream]_vars

\* what the stream holds: the inner bytes from p on, then zeros, n bytes
StreamContent ==
    LET data == ts.t.inner.data
        have == IF Len(data) > ts.p THEN SubSeq(data, ts.p + 1, Len(data))
                ELSE <<>>
    IN SubSeq(have \o Zeros(ts.n), 1, ts.n)

\* C13: reading the bounded stream adapter with any sequence of buffer
\* sizes returns the inner bytes from p on followed by zeros, n bytes in
\* all and none beyond the limit p + n (also when the inner source is
\* longer), and a read reports end-of-stream exactly when the position has
\* reached the limit.
C13_ReadsGiveDeclaredLength ==
    (ts.phase = "open" /\ ~ts.seeked) =>
        /\ ts.t.limit = ts.p + ts.n
        /\ ts.t.pos <= ts.t.limit
        /\ Len(ts.out) = ts.t.pos - ts.p
        /\ ts.out = SubSeq(StreamContent, 1, Len(ts.out))
        /\ (ts.op.kind = "read" /\ ts.op.result = "ok") =>
              (ts.op.bytes = <<>> <=> ts.op.before.pos = ts.t.limit)

\* C13 witness: the inner source ran out before the declared length, the
\* reads went on to the limit and the next one reported end-of-stream
C13_Witness ==
    /\ ts.phase = "open"
    /\ ~ts.seeked
    /\ ts.n = MaxLen
    /\ Len(ts.t.inner.data) = ts.p + 1
    /\ Len(ts.out) = ts.n
    /\ ts.out[ts.n] = 0
    /\ ts.op.kind = "read"
    /\ ts.op.result = "ok"
    /\ ts.op.bytes = <<>>

\* C14: a seek on the adapter, the target taken from Start, from Current
\* (the adapter's position) or from End (the limit), fails with a
\* negative-seek error when the target is negative and with a distinct
\* seek-past-end error when it is beyond the limit, the adapter and the
\* inner reader staying where they were; a target in [0, limit] succeeds.
C14_SeekBounds ==
    (ts.phase = "open" /\ ts.op.kind = "seek") =>
        LET before == ts.op.before
            target == CASE ts.op.from = "Start" -> ts.op.d
                        [] ts.op.from = "Current" -> before.pos + ts.op.d
                        [] ts.op.from = "End" -> before.limit + ts.op.d
        IN IF target < 0
           THEN /\ ts.op.result = "err"
                /\ ts.op.err = "NegativeSeek"
                /\ ts.t = before
           ELSE IF target > before.limit
           THEN /\ ts.op.result = "err"
                /\ ts.op.err = "SeekPastEnd"
                /\ ts.t = before
           ELSE /\ ts.op.result = "ok"
                /\ ts.op.pos = target
                /\ ts.t.inner.pos = target

\* C14 witness: a seek past the end was refused after the stream had been
\* read, the adapter and the inner reader left in place
C14_Witness ==
    /\ ts.phase = "open"
    /\ ts.op.kind = "seek"
    /\ ts.op.err = "SeekPastEnd"
    /\ ts.op.from = "Current"
    /\ ts.t.pos > ts.p
    /\ ts.t.inner.pos = ts.t.pos

\* C26: the adapter's position never exceeds the limit, it is the position
\* a successful seek asked for, and at the start of a read that goes to
\* the inner reader it equals the inner reader's position.
C26_PositionFollowsSeek ==
    ts.phase = "open" =>
        /\ ts.t.pos <= ts.t.limit
        /\ (ts.op.kind = "seek" /\ ts.op.result = "ok") => ts.t.pos = ts.op.pos
        /\ (ts.op.kind = "read" /\ ts.op.before.pos < ts.op.before.limit
              /\ ~ts.op.before.extended) =>
              ts.op.before.pos = ts.op.before.inner.pos

----------------------------------------------------------------------------
(* SpecLookup: get_fragment_by_name on every index of up to MaxFrags       *)
(* fragments whose alias lists are drawn from LookupNames, for every alias *)
(* of LookupAliases: aliases carried by none, by one and by several        *)
(* fragments, and a fragment that lists an alias twice.                    *)

LookupAliases == {"a", "b", "c"}

LookupNames == { <<>>, <<"a">>, <<"b">>, <<"a", "b">>, <<"b", "a">>, <<"a", "a">> }

LookupFragment(name) == Fragment(name, <<"backup">>, "/cwd/d1", None, Slice(0, 1))

LookupIndexes ==
    UNION { [1..n -> { LookupFragment(name) : name \in LookupNames }] :
              n \in 0..MaxFrags }

InitLookup ==
    /\ IdleWorkflow
    /\ cp = CpIdle
    /\ cov = [phase |-> "idle"]
    /\ ts = [phase |-> "idle"]
    /\ lk \in { [phase |-> "drawn", index |-> index, alias |-> alias] :
                  index \in LookupIndexes, alias \in LookupAliases }

RunLookup ==
    /\ lk.phase = "drawn"
    /\ lk' = [phase |-> "done", index |-> lk.index, alias |-> lk.alias,
              out |-> GetFragmentByName(lk.index, lk.alias)]
    /\ UNCHANGED <<disk_index, files, next_uuid, last, observed, src_changes,
                   cp, cov, ts>>

NextLookup == RunLookup

SpecLookup == InitLookup /\ [][NextLookup]_vars

\* the positions of the fragments that carry the alias
Carriers ==
    { i \in 1..Len(lk.index) :
        \E j \in 1..Len(lk.index[i].name) : lk.index[i].name[j] = lk.alias }

\* C18: a lookup by alias fails with "not found" when no fragment carries
\* the alias, fails with the distinct "ambiguous" error when more than one
\* fragment carries it, and otherwise returns the position of the one
\* fragment that carries it.
C18_LookupByAlias ==
    lk.phase = "done" =>
        /\ Carriers = {} => (~lk.out.ok /\ lk.out.err = "not_found")
        /\ Cardinality(Carriers) > 1 => (~lk.out.ok /\ lk.out.err = "ambiguous")
        /\ Cardinality(Carriers) = 1 => (lk.out.ok /\ Carriers = {lk.out.no})

\* C18 witness: the first and the last of three fragments carry the alias,
\* the first one twice, and the lookup failed as ambiguous
C18_Witness ==
    /\ lk.phase = "done"
    /\ Len(lk.index) = 3
    /\ Carriers = {1, 3}
    /\ lk.index[1].name = <<"a", "a">>
    /\ lk.alias = "a"
    /\ lk.out.err = "ambiguous"

----------------------------------------------------------------------------
(* SpecSession: any sequence of invocations of the four workflows on one   *)
(* index file, from a source file of any length up to MaxLen and no index. *)
(* Write-backup has two destination files and may find one of them full    *)
(* after a byte; create may find a source that cannot seek and fails to be *)
(* read, validate-hash a fragment file that fails to be read.              *)

SessionCreateEnvs == {NominalEnv} \cup UnseekableFaultyEnvs

\* the destination is full after one byte
SessionBackupEnvs ==
    { NominalEnv,
      Env("none", FileSink(TRUE, 1, ChunkCap, 0), NominalHasher, NominalRd) }

SessionBackups ==
    { [dest |-> d, group |-> "backup", with_hash |-> h, env |-> e] :
        d \in {"d1", "d2"}, h \in BOOLEAN, e \in SessionBackupEnvs }

SessionAliases == {"main", Uuidgen(2), Uuidgen(3)}

SessionRestoreEnvs == {NominalEnv}

\* a read of the fragment's file fails after the first byte
SessionValidateEnvs ==
    { NominalEnv,
      Env("none", NominalDst, NominalHasher,
          [faulty |-> TRUE, err_at |-> 1, intr |-> 0]) }

InitSession ==
    /\ disk_index = NoIndex
    /\ files \in { [p \in CanonPaths |->
                      IF p = "/cwd/src"
                      THEN [exists |-> TRUE, data |-> Bytes(n)]
                      ELSE [exists |-> FALSE, data |-> <<>>]] :
                      n \in 0..MaxLen }
    /\ next_uuid = 0
    /\ last = [cmd |-> "none"]
    /\ observed = {}
    /\ src_changes = 0
    /\ cp = CpIdle
    /\ cov = [phase |-> "idle"]
    /\ ts = [phase |-> "idle"]
    /\ lk = [phase |-> "idle"]

SessionCreate ==
    \E with_hash \in BOOLEAN, env \in SessionCreateEnvs :
      CreateInvocation(with_hash, env)

SessionWriteBackup == \E inv \in SessionBackups : WriteBackupInvocation(inv)

SessionRestore ==
    \E src_name \in SessionAliases,
       dst_name \in {None, Some(Uuidgen(2))},
       with_hash \in BOOLEAN, env \in SessionRestoreEnvs :
      RestoreInvocation(src_name, dst_name, with_hash, env)

SessionValidateHash ==
    \E frag \in SessionAliases, env \in SessionValidateEnvs :
      ValidateInvocation(frag, env)

NextSession ==
    SessionCreate \/ SessionWriteBackup \/ SessionRestore \/ SessionValidateHash

SpecSession == InitSession /\ [][NextSession]_vars

\* validate-hash of "main" follows a create with hashing, and it hashed the
\* whole length the main fragment declares
RoundTripStep ==
    /\ last.cmd = "create"
    /\ last.outcome = "created"
    /\ last.with_hash
    /\ last'.cmd = "validate"
    /\ last'.src_name = "main"
    /\ last'.hash # None
    /\ last'.written = SliceLen(disk_index.fragments[1].geometry)

\* C16: create with hashing followed by validate-hash on the "main"
\* fragment, the source file not modified in between, yields verified, for
\* every length of the source file.
C16_RoundTrip ==
    [][RoundTripStep =>
         /\ files' = files
         /\ last'.result = "ok"
         /\ last'.status = ExitVerified
         /\ last'.outcome = "verified"]_vars

\* C16 witness: the source file of MaxLen bytes was verified right after
\* the create that hashed it
C16_Witness ==
    /\ last.cmd = "validate"
    /\ last.src_name = "main"
    /\ last.outcome = "verified"
    /\ last.written = MaxLen
    /\ Len(disk_index.fragments) = 1
    /\ disk_index.fragments[1].hashes = last.hash
    /\ files["/cwd/src"].data = Bytes(MaxLen)

\* C19: over any sequence of invocations the fragments of the index file
\* only grow by appending: every fragment stays at its position with all
\* its fields, write-backup adds at most one fragment per invocation, and
\* restore-from-fragment and validate-hash leave the index file unchanged.
C19_AppendOnly ==
    [][/\ disk_index.exists =>
             /\ disk_index'.exists
             /\ Len(disk_index'.fragments) >= Len(disk_index.fragments)
             /\ SubSeq(disk_index'.fragments, 1, Len(disk_index.fragments))
                   = disk_index.fragments
       /\ last'.cmd = "write_backup" =>
             Len(disk_index'.fragments) <= Len(disk_index.fragments) + 1
       /\ last'.cmd \in {"restore", "validate"} => disk_index' = disk_index]_vars

\* C19 witness: the index has grown to three fragments and a restore that
\* copied data has run on it
C19_Witness ==
    /\ Len(disk_index.fragments) = 3
    /\ last.cmd = "restore"
    /\ last.outcome = "restored"
    /\ last.written > 0

----------------------------------------------------------------------------
(* SpecResume: create on a source file of 1..ResumeLen bytes that is never *)
(* modified, then write-backup for the group "backup" again and again.     *)
(* Every copy ends without a fatal error and with at least one byte        *)
(* written: the destination takes everything, or is full after one byte or *)
(* more, with short and interrupted writes.  The invocations go on for     *)
(* ever (weak fairness).                                                   *)

\* the longest source whose backup fits the index one byte at a time
ResumeLen == Min(MaxLen, MaxFrags - 1)

ResumeSinks ==
    {NominalDst}
    \cup { FileSink(TRUE, cap, short, intr) :
             cap \in 1..MaxLen, short \in 1..ChunkCap, intr \in 0..1 }

ResumeBackups ==
    { [dest |-> d, group |-> "backup", with_hash |-> h,
       env |-> Env("none", sink, NominalHasher, NominalRd)] :
        d \in {"d1", "d2"}, h \in BOOLEAN, sink \in ResumeSinks }

InitResume ==
    /\ disk_index = NoIndex
    /\ files \in { [p \in CanonPaths |->
                      IF p = "/cwd/src"
                      THEN [exists |-> TRUE, data |-> Bytes(n)]
                      ELSE [exists |-> FALSE, data |-> <<>>]] :
                      n \in 1..ResumeLen }
    /\ next_uuid = 0
    /\ last = [cmd |-> "none"]
    /\ observed = {}
    /\ src_changes = 0
    /\ cp = CpIdle
    /\ cov = [phase |-> "idle"]
    /\ ts = [phase |-> "idle"]
    /\ lk = [phase |-> "idle"]

ResumeCreate ==
    /\ ~disk_index.exists
    /\ \E with_hash \in BOOLEAN : CreateInvocation(with_hash, NominalEnv)

ResumeWriteBackup ==
    /\ disk_index.exists
    /\ \E inv \in ResumeBackups : WriteBackupInvocation(inv)

NextResume == ResumeCreate \/ ResumeWriteBackup

SpecResume ==
    /\ InitResume
    /\ [][NextResume]_vars
    /\ WF_vars(ResumeCreate)
    /\ WF_vars(ResumeWriteBackup)

\* an invocation of write-backup has reported complete
ReportedComplete == <<"satisfied", ExitComplete>> \in observed

\* C27: from an index made by create on a source of L > 0 bytes that is
\* not modified, when every write-backup for the group ends non-fatally
\* with at least one byte written, some invocation eventually reports
\* complete, and every invocation after that reports already-complete and
\* leaves the index file and the data files as they are.
C27_ResumeCompletes ==
    /\ <>(last.cmd = "write_backup" /\ last.outcome = "complete")
    /\ [][ReportedComplete =>
             /\ last'.cmd = "write_backup"
             /\ last'.outcome = "already_complete"
             /\ disk_index' = disk_index
             /\ files' = files]_vars

\* C27 witness: the backup was completed in as many invocations as the
\* source has bytes, and the invocation after that found nothing to do
C27_Witness ==
    /\ ReportedComplete
    /\ last.cmd = "write_backup"
    /\ last.outcome = "already_complete"
    /\ Len(files["/cwd/src"].data) = ResumeLen
    /\ Len(disk_index.fragments) = ResumeLen + 1
    /\ <<"partial", ExitPartial>> \in observed

----------------------------------------------------------------------------
(* SpecSteps: copy_and_hash_with one call of read and of write at a time.  *)
(* cp holds the position in the code: "read" is process_chunks before      *)
(* read_nointr, "test" is the loop condition of try_write_all, "write" is  *)
(* try_write_all before dst.write, "returned" is copy_and_hash_with having *)
(* returned.  `to` names the sink the running try_write_all writes to, buf *)
(* its buffer and n its local count `written`.  A sink here may accept     *)
(* zero bytes of a non-empty buffer and report no error (short = 0).       *)

StepSources ==
    { FileReader(Bytes(len), 0, faulty, 1, intr) :
        len \in 0..MaxLen, faulty \in BOOLEAN, intr \in 0..1 }

StepSinks ==
    { FileSink(limited, 2, short, intr) :
        limited \in BOOLEAN, short \in 0..ChunkCap, intr \in 0..1 }

StepHashers ==
    { NominalHasher, HashSink(TRUE, 1, 0), HashSink(FALSE, 0, 1), NullBuffer }

InitSteps ==
    /\ IdleWorkflow
    /\ cov = [phase |-> "idle"]
    /\ ts = [phase |-> "idle"]
    /\ lk = [phase |-> "idle"]
    /\ cp \in { [phase |-> "read", src |-> s, dst |-> d, hasher |-> h,
                 red |-> 0, written |-> 0, hashed |-> 0,
                 chunk |-> <<>>, to |-> "dst", buf |-> <<>>, n |-> 0,
                 w |-> [written |-> 0, ok |-> TRUE],
                 fatal |-> FALSE, res |-> Ok] :
                  s \in StepSources, d \in StepSinks, h \in StepHashers }

\* copy_and_hash_with returns: the backstop, then (written, fatal, res)
StepReturn(c, fatal, res) ==
    [c EXCEPT !.phase = "returned",
              !.fatal = Backstop(fatal, c.written, c.hashed),
              !.res = res]

\* a try_write_all is entered on sink `to` with buffer buf
StepEnter(c, to, buf) ==
    [c EXCEPT !.phase = "test", !.to = to, !.buf = buf, !.n = 0]

\* the callback's end, h being what the hasher's try_write_all returned
StepChunkDone(c, h) ==
    IF ~h.ok
    THEN StepReturn(c, TRUE, Err(IF c.w.ok THEN "hasher" ELSE "write+hasher"))
    ELSE IF ~c.w.ok
    THEN StepReturn(c, FALSE, Err("write"))
    ELSE [c EXCEPT !.phase = "read"]

\* the counters once both try_write_all of a chunk have returned
StepCounted(c, h) ==
    [c EXCEPT !.red = @ + Len(c.chunk), !.written = @ + c.w.written,
              !.hashed = @ + h.written]

\* try_write_all returns (n, ok): the destination's result is kept and the
\* hasher is fed the prefix taken; the hasher's result ends the callback
StepWriteAllReturns(c, ok) ==
    IF c.to = "dst"
    THEN StepEnter([c EXCEPT !.w = [written |-> c.n, ok |-> ok]],
                   "hasher", HashedPrefix(c.chunk, c.n))
    ELSE StepChunkDone(StepCounted(c, [written |-> c.n, ok |-> ok]),
                       [written |-> c.n, ok |-> ok])

\* process_chunks once read_nointr returned `got`
StepChunkRead(c, got) ==
    IF got.kind = "err"
    THEN StepReturn([c EXCEPT !.src = got.rd], FALSE, Err("read"))
    ELSE IF got.bytes = <<>>
    THEN StepReturn([c EXCEPT !.src = got.rd], FALSE, Ok)
    ELSE StepEnter([c EXCEPT !.src = got.rd, !.chunk = got.bytes],
                   "dst", got.bytes)

\* the sink the running try_write_all writes to
StepSink(c) == IF c.to = "dst" THEN c.dst ELSE c.hasher

StepWithSink(c, sink) ==
    IF c.to = "dst" THEN [c EXCEPT !.dst = sink] ELSE [c EXCEPT !.hasher = sink]

\* try_write_all once dst.write returned r
StepWriteRound(c, r) ==
    IF r.kind = "ok"
    THEN [StepWithSink(c, r.sink) EXCEPT !.phase = "test", !.n = @ + r.n]
    ELSE IF r.kind = "intr"
    THEN [StepWithSink(c, r.sink) EXCEPT !.phase = "test"]
    ELSE StepWriteAllReturns(StepWithSink(c, r.sink), FALSE)

StepUnchanged ==
    UNCHANGED <<disk_index, files, next_uuid, last, observed, src_changes,
                cov, ts, lk>>

\* process_chunks: one read_nointr of the source
ProcessChunksRead ==
    /\ cp.phase = "read"
    /\ \E got \in { ReadNoIntr(cp.src, ChunkCap) } :
          cp' = StepChunkRead(cp, got)
    /\ StepUnchanged

\* try_write_all: the loop condition
WriteAllTest ==
    /\ cp.phase = "test"
    /\ cp' = IF cp.n < Len(cp.buf)
             THEN [cp EXCEPT !.phase = "write"]
             ELSE StepWriteAllReturns(cp, TRUE)
    /\ StepUnchanged

\* try_write_all: one dst.write of what is left of the buffer
WriteAllCall ==
    /\ cp.phase = "write"
    /\ \E r \in { SinkWrite(StepSink(cp),
                            SubSeq(cp.buf, cp.n + 1, Len(cp.buf))) } :
          cp' = StepWriteRound(cp, r)
    /\ StepUnchanged

NextSteps == ProcessChunksRead \/ WriteAllTest \/ WriteAllCall

\* the function runs on: whichever statement comes next is executed
SpecSteps ==
    /\ InitSteps
    /\ [][NextSteps]_vars
    /\ WF_vars(ProcessChunksRead)
    /\ WF_vars(WriteAllTest)
    /\ WF_vars(WriteAllCall)

\* C28: copy_and_hash_with returns after finitely many steps, for every
\* finite source and every destination and hash sink that report
\* Interrupted only finitely often, a sink that accepts zero bytes of a
\* non-empty buffer without an error included.
C28_CopyReturns == <>(cp.phase = "returned")

====
